---- MODULE Spec2Model ----
(***************************************************************************)
(* Model of the log validator: the rule engine (operator registry, nested  *)
(* field lookup, simple and conditional rules) and the Validator that      *)
(* aggregates a stream of log entries into counters, per-robot summaries,  *)
(* the violation list and reports.                                         *)
(***************************************************************************)
EXTENDS Integers, Sequences, FiniteSets, TLC

(***************************************************************************)
(* JSON / Python values.  A value is a tagged tuple, so that the dynamic   *)
(* type of a value is part of the value, as it is in Python.               *)
(***************************************************************************)
Null == <<"null">>
PyInt(n) == <<"int", n>>
PyStr(s) == <<"str", s>>
PyBool(b) == <<"bool", b>>
PyList(xs) == <<"list", xs>>
PyDict(f) == <<"map", f>>
Tag(v) == v[1]

EmptyDict == [k \in {} |-> Null]

\* bool is a subclass of int in Python: True == 1, False == 0.
IsNumeric(v) == Tag(v) \in {"int", "bool"}
Num(v) == IF Tag(v) = "bool" THEN (IF v[2] THEN 1 ELSE 0) ELSE v[2]

\* list, dict ... are unhashable: they cannot be used as a dict key.
Hashable(v) == Tag(v) \notin {"list", "map"}

\* Position of a string in Python's (code point) order, for the strings the
\* modelled payloads and thresholds use.
StrRank(s) ==
    CASE s = "" -> 0
      [] s = "E1" -> 1
      [] s = "E2" -> 2
      [] s = "high" -> 3
      [] s = "idle" -> 4
      [] s = "low" -> 5
      [] s = "moving" -> 6
      [] s = "stopped" -> 7
      [] s = "t1" -> 8
      [] s = "unknown" -> 9

\* Python ==
RECURSIVE PyEq(_, _)
PyEq(a, b) ==
    IF IsNumeric(a) /\ IsNumeric(b) THEN Num(a) = Num(b)
    ELSE IF Tag(a) # Tag(b) THEN FALSE
    ELSE CASE Tag(a) = "null" -> TRUE
           [] Tag(a) = "str" -> a[2] = b[2]
           [] Tag(a) = "list" ->
                /\ Len(a[2]) = Len(b[2])
                /\ \A i \in 1..Len(a[2]) : PyEq(a[2][i], b[2][i])
           [] Tag(a) = "map" ->
                /\ DOMAIN a[2] = DOMAIN b[2]
                /\ \A k \in DOMAIN a[2] : PyEq(a[2][k], b[2][k])
           [] OTHER -> FALSE

\* The outcome of applying a predicate: it returns a truth value ("true",
\* "false") or raises an exception, named by its class.
BoolOut(b) == IF b THEN "true" ELSE "false"
IsException(out) == out \notin {"true", "false"}

NumCmp(op, x, y) ==
    CASE op = ">=" -> x >= y
      [] op = ">" -> x > y
      [] op = "<=" -> x <= y
      [] op = "<" -> x < y

\* Python's ordered comparison a <op> b: numbers with numbers, strings with
\* strings, lists lexicographically; everything else raises TypeError.
RECURSIVE PyCompare(_, _, _)
PyCompare(op, a, b) ==
    IF IsNumeric(a) /\ IsNumeric(b) THEN BoolOut(NumCmp(op, Num(a), Num(b)))
    ELSE IF Tag(a) = "str" /\ Tag(b) = "str"
    THEN BoolOut(NumCmp(op, StrRank(a[2]), StrRank(b[2])))
    ELSE IF Tag(a) = "list" /\ Tag(b) = "list"
    THEN LET n == IF Len(a[2]) < Len(b[2]) THEN Len(a[2]) ELSE Len(b[2])
             diff == {i \in 1..n : ~PyEq(a[2][i], b[2][i])}
         IN  IF diff = {} THEN BoolOut(NumCmp(op, Len(a[2]), Len(b[2])))
             ELSE LET i == CHOOSE j \in diff : \A k \in diff : j <= k
                  IN  PyCompare(op, a[2][i], b[2][i])
    ELSE "TypeError"

(***************************************************************************)
(* Operator registry (RuleEngine._operators): operator name -> predicate.  *)
(* A predicate is named by a tag; ApplyOperator applies the tagged         *)
(* predicate to (actual, expected).                                        *)
(***************************************************************************)
ApplyOperator(impl, a, b) ==
    CASE impl \in {">=", ">", "<=", "<"} ->
            IF Tag(a) = "null" THEN "false" ELSE PyCompare(impl, a, b)
      [] impl = "==" -> BoolOut(PyEq(a, b))
      [] impl = "!=" -> BoolOut(~PyEq(a, b))
      [] impl = "in" ->
            IF Tag(b) = "list"
            THEN BoolOut(\E i \in 1..Len(b[2]) : PyEq(a, b[2][i]))
            ELSE "false"
      [] impl = "not_in" ->
            IF Tag(b) = "list"
            THEN BoolOut(~(\E i \in 1..Len(b[2]) : PyEq(a, b[2][i])))
            ELSE "true"
      [] impl = "exists" -> BoolOut(PyEq(PyBool(Tag(a) # "null"), b))
      \* a custom predicate: lambda a, b: a is not None and a % b == 0
      [] impl = "divisible_by" ->
            IF Tag(a) = "null" THEN "false"
            ELSE IF IsNumeric(a) /\ IsNumeric(b)
            THEN IF Num(b) = 0 THEN "ZeroDivisionError"
                 ELSE BoolOut(Num(a) % (IF Num(b) < 0 THEN -Num(b) ELSE Num(b)) = 0)
            ELSE "TypeError"

\* The string predicates (regex, contains, starts_with, ends_with) work on
\* the characters of str(actual); no modelled rule names them.
DefaultOperators ==
    [n \in {">=", ">", "<=", "<", "==", "!=", "in", "not_in", "exists"} |-> n]

(***************************************************************************)
(* Rules and log entries (models.py).                                      *)
(***************************************************************************)
\* A clause of a conditional rule is None or a dict; d holds the dict.
NoClause == [isNone |-> TRUE, d |-> EmptyDict]
Clause(d) == [isNone |-> FALSE, d |-> d]
\* Python truthiness of Optional[Dict]: None and {} are falsy.
Falsy(c) == c.isNone \/ DOMAIN c.d = {}

\* LogEntry.from_dict
LogEntry_from_dict(data, index) ==
    [timestamp |-> IF "timestamp" \in DOMAIN data THEN data["timestamp"] ELSE PyStr(""),
     robot_id  |-> IF "robot_id" \in DOMAIN data THEN data["robot_id"] ELSE PyStr("unknown"),
     raw_data  |-> PyDict(data),
     index     |-> index]

\* str.split(".") on the field paths the modelled rules and calls use (a
\* string is an atom here, so the paths with a dot are listed).
Split(field) ==
    CASE field = "location.x" -> <<"location", "x">>
      [] field = "location.x.y" -> <<"location", "x", "y">>
      [] field = "battery_level.x" -> <<"battery_level", "x">>
      [] field = "a.b" -> <<"a", "b">>
      [] field = "a.b.c" -> <<"a", "b", "c">>
      [] field = "a.b.c.d" -> <<"a", "b", "c", "d">>
      [] field = "a..c" -> <<"a", "", "c">>
      [] field = "a." -> <<"a", "">>
      [] OTHER -> <<field>>

\* Mutant: a value that is not a dict ends the loop and is returned.
RECURSIVE WalkParts_stopping(_, _)
WalkParts_stopping(data, parts) ==
    IF parts = <<>> THEN data
    ELSE IF Tag(data) = "map"
         THEN WalkParts_stopping(IF Head(parts) \in DOMAIN data[2]
                                 THEN data[2][Head(parts)] ELSE Null,
                                 Tail(parts))
         ELSE data

\* RuleEngine.get_field_value: the loop over the path segments.
RECURSIVE WalkParts(_, _)
WalkParts(data, parts) ==
    IF parts = <<>> THEN data
    ELSE IF Tag(data) = "map"
         THEN WalkParts(IF Head(parts) \in DOMAIN data[2]
                        THEN data[2][Head(parts)] ELSE Null,
                        Tail(parts))
         ELSE Null

get_field_value(entry, field) == WalkParts(entry.raw_data, Split(field))

\* Mutant: an unknown operator holds for no value.
evaluate_condition_lenient(ops, entry, field, operator, value) ==
    LET actual_value == get_field_value(entry, field)
    IN  IF operator \notin DOMAIN ops THEN "false"
        ELSE ApplyOperator(ops[operator], actual_value, value)

\* RuleEngine.evaluate_condition: what the predicate gives, or ValueError
\* for a name that is not in the registry.
evaluate_condition(ops, entry, field, operator, value) ==
    LET actual_value == get_field_value(entry, field)
    IN  IF operator \notin DOMAIN ops THEN "ValueError"
        ELSE ApplyOperator(ops[operator], actual_value, value)

\* A call of evaluate_condition, as it is seen from outside the engine.
Call(field, operator, value) == <<field, operator, value>>

\* f-string pieces of Violation.expected: literal text and str(value).
Lit(s) == <<"lit", s>>
Fmt(v) == <<"fmt", v>>

MkViolation(rule, entry, field, actual_value, expected) ==
    [rule_id      |-> rule.id,
     rule_name    |-> rule.name,
     severity     |-> rule.severity,
     message      |-> rule.message,
     timestamp    |-> entry.timestamp,
     robot_id     |-> entry.robot_id,
     field        |-> field,
     actual_value |-> actual_value,
     expected     |-> expected,
     log_index    |-> entry.index]

\* The outcome of evaluating one rule: at most one violation, whether an
\* exception left the function, and the evaluate_condition calls made.
Outcome(vs, raised, calls) == [violation |-> vs, raised |-> raised, calls |-> calls]

\* Mutant: the violation reports the threshold as the actual value.
evaluate_simple_rule_threshold(ops, rule, entry) ==
    LET passed == evaluate_condition(ops, entry, rule.field, rule.operator, rule.threshold)
        calls  == <<Call(rule.field, rule.operator, rule.threshold)>>
    IN  IF IsException(passed) THEN Outcome(<<>>, TRUE, calls)
        ELSE IF passed = "false"
        THEN Outcome(<<MkViolation(rule, entry, rule.field, rule.threshold,
                                   <<Lit(rule.operator), Lit(" "), Fmt(rule.threshold)>>)>>,
                     FALSE, calls)
        ELSE Outcome(<<>>, FALSE, calls)

\* RuleEngine._evaluate_simple_rule
evaluate_simple_rule(ops, rule, entry) ==
    LET passed == evaluate_condition(ops, entry, rule.field, rule.operator, rule.threshold)
        calls  == <<Call(rule.field, rule.operator, rule.threshold)>>
    IN  IF IsException(passed) THEN Outcome(<<>>, TRUE, calls)
        ELSE IF passed = "false"
        THEN Outcome(<<MkViolation(rule, entry, rule.field,
                                   get_field_value(entry, rule.field),
                                   <<Lit(rule.operator), Lit(" "), Fmt(rule.threshold)>>)>>,
                     FALSE, calls)
        ELSE Outcome(<<>>, FALSE, calls)

ClauseKeys == {"field", "operator", "value"}

\* Mutant: the then clause is checked whatever the condition gives.
evaluate_conditional_rule_always(ops, rule, entry) ==
    IF Falsy(rule.condition) \/ Falsy(rule.then) THEN Outcome(<<>>, FALSE, <<>>)
    ELSE LET c == rule.condition.d
             t == rule.then.d
         IN
         IF ~(ClauseKeys \subseteq DOMAIN c) \/ ~(ClauseKeys \subseteq DOMAIN t)
         THEN Outcome(<<>>, TRUE, <<>>)
         ELSE
         LET then_passed == evaluate_condition(ops, entry, t["field"], t["operator"], t["value"])
             calls2 == <<Call(c["field"], c["operator"], c["value"]),
                         Call(t["field"], t["operator"], t["value"])>>
         IN
         IF IsException(then_passed) THEN Outcome(<<>>, TRUE, calls2)
         ELSE IF then_passed = "false"
         THEN Outcome(<<MkViolation(rule, entry, t["field"],
                                    get_field_value(entry, t["field"]),
                                    <<Lit(t["operator"]), Lit(" "), Fmt(t["value"])>>)>>,
                      FALSE, calls2)
         ELSE Outcome(<<>>, FALSE, calls2)

\* Mutant: the violation is reported on the field of the condition.
evaluate_conditional_rule_on_condition(ops, rule, entry) ==
    IF Falsy(rule.condition) \/ Falsy(rule.then) THEN Outcome(<<>>, FALSE, <<>>)
    ELSE LET c == rule.condition.d
             t == rule.then.d
         IN
         IF ~(ClauseKeys \subseteq DOMAIN c) THEN Outcome(<<>>, TRUE, <<>>)
         ELSE
         LET condition_met == evaluate_condition(ops, entry, c["field"], c["operator"], c["value"])
             calls1 == <<Call(c["field"], c["operator"], c["value"])>>
         IN
         IF IsException(condition_met) THEN Outcome(<<>>, TRUE, calls1)
         ELSE IF condition_met = "false" THEN Outcome(<<>>, FALSE, calls1)
         ELSE IF ~(ClauseKeys \subseteq DOMAIN t) THEN Outcome(<<>>, TRUE, calls1)
         ELSE
         LET then_passed == evaluate_condition(ops, entry, t["field"], t["operator"], t["value"])
             calls2 == Append(calls1, Call(t["field"], t["operator"], t["value"]))
         IN
         IF IsException(then_passed) THEN Outcome(<<>>, TRUE, calls2)
         ELSE IF then_passed = "false"
         THEN Outcome(<<MkViolation(rule, entry, c["field"],
                                    get_field_value(entry, c["field"]),
                                    <<Lit(t["operator"]), Lit(" "), Fmt(t["value"]),
                                      Lit(" (when "), Lit(c["field"]), Lit(" "),
                                      Lit(c["operator"]), Lit(" "), Fmt(c["value"]),
                                      Lit(")")>>)>>,
                      FALSE, calls2)
         ELSE Outcome(<<>>, FALSE, calls2)

\* Mutant: a rule without a condition applies to every log entry.
evaluate_conditional_rule_unconditional(ops, rule, entry) ==
    IF Falsy(rule.then) THEN Outcome(<<>>, FALSE, <<>>)
    ELSE IF Falsy(rule.condition)
    THEN evaluate_simple_rule(ops, [rule EXCEPT !.field = rule.then.d["field"],
                                                !.operator = rule.then.d["operator"],
                                                !.threshold = rule.then.d["value"]],
                              entry)
    ELSE LET c == rule.condition.d
             t == rule.then.d
         IN
         IF ~(ClauseKeys \subseteq DOMAIN c) THEN Outcome(<<>>, TRUE, <<>>)  \* KeyError
         ELSE
         LET condition_met == evaluate_condition(ops, entry, c["field"], c["operator"], c["value"])
             calls1 == <<Call(c["field"], c["operator"], c["value"])>>
         IN
         IF IsException(condition_met) THEN Outcome(<<>>, TRUE, calls1)
         ELSE IF condition_met = "false" THEN Outcome(<<>>, FALSE, calls1)
         ELSE IF ~(ClauseKeys \subseteq DOMAIN t) THEN Outcome(<<>>, TRUE, calls1)  \* KeyError
         ELSE
         LET then_passed == evaluate_condition(ops, entry, t["field"], t["operator"], t["value"])
             calls2 == Append(calls1, Call(t["field"], t["operator"], t["value"]))
         IN
         IF IsException(then_passed) THEN Outcome(<<>>, TRUE, calls2)
         ELSE IF then_passed = "false"
         THEN Outcome(<<MkViolation(rule, entry, t["field"],
                                    get_field_value(entry, t["field"]),
                                    <<Lit(t["operator"]), Lit(" "), Fmt(t["value"]),
                                      Lit(" (when "), Lit(c["field"]), Lit(" "),
                                      Lit(c["operator"]), Lit(" "), Fmt(c["value"]),
                                      Lit(")")>>)>>,
                      FALSE, calls2)
         ELSE Outcome(<<>>, FALSE, calls2)

\* RuleEngine._evaluate_conditional_rule
evaluate_conditional_rule(ops, rule, entry) ==
    IF Falsy(rule.condition) \/ Falsy(rule.then) THEN Outcome(<<>>, FALSE, <<>>)
    ELSE LET c == rule.condition.d
             t == rule.then.d
         IN
         IF ~(ClauseKeys \subseteq DOMAIN c) THEN Outcome(<<>>, TRUE, <<>>)  \* KeyError
         ELSE
         LET condition_met == evaluate_condition(ops, entry, c["field"], c["operator"], c["value"])
             calls1 == <<Call(c["field"], c["operator"], c["value"])>>
         IN
         IF IsException(condition_met) THEN Outcome(<<>>, TRUE, calls1)
         ELSE IF condition_met = "false" THEN Outcome(<<>>, FALSE, calls1)
         ELSE IF ~(ClauseKeys \subseteq DOMAIN t) THEN Outcome(<<>>, TRUE, calls1)  \* KeyError
         ELSE
         LET then_passed == evaluate_condition(ops, entry, t["field"], t["operator"], t["value"])
             calls2 == Append(calls1, Call(t["field"], t["operator"], t["value"]))
         IN
         IF IsException(then_passed) THEN Outcome(<<>>, TRUE, calls2)
         ELSE IF then_passed = "false"
         THEN Outcome(<<MkViolation(rule, entry, t["field"],
                                    get_field_value(entry, t["field"]),
                                    <<Lit(t["operator"]), Lit(" "), Fmt(t["value"]),
                                      Lit(" (when "), Lit(c["field"]), Lit(" "),
                                      Lit(c["operator"]), Lit(" "), Fmt(c["value"]),
                                      Lit(")")>>)>>,
                      FALSE, calls2)
         ELSE Outcome(<<>>, FALSE, calls2)

\* Mutant: no try/except, the exception leaves evaluate_rule.
evaluate_rule_uncaught(ops, rule, entry) ==
    IF rule.type = "conditional"
    THEN evaluate_conditional_rule(ops, rule, entry)
    ELSE evaluate_simple_rule(ops, rule, entry)

\* RuleEngine.evaluate_rule: the try/except turns every exception into None.
evaluate_rule(ops, rule, entry) ==
    LET o == IF rule.type = "conditional"
             THEN evaluate_conditional_rule(ops, rule, entry)
             ELSE evaluate_simple_rule(ops, rule, entry)
    IN  IF o.raised THEN Outcome(<<>>, FALSE, o.calls) ELSE o

\* Mutant: the loop puts each violation in front of the ones it has.
RECURSIVE engine_validate_from_prepending(_, _, _, _)
engine_validate_from_prepending(ops, rs, entry, i) ==
    IF i > Len(rs) THEN [violations |-> <<>>, raised |-> FALSE, outcomes |-> <<>>]
    ELSE LET o == evaluate_rule(ops, rs[i], entry)
         IN  IF o.raised
             THEN [violations |-> <<>>, raised |-> TRUE, outcomes |-> <<o>>]
             ELSE LET rest == engine_validate_from_prepending(ops, rs, entry, i + 1)
                  IN  [violations |-> rest.violations \o o.violation,
                       raised     |-> rest.raised,
                       outcomes   |-> <<o>> \o rest.outcomes]

\* RuleEngine.validate_entry: the loop over the catalog.  An exception that
\* left evaluate_rule would leave the loop.
RECURSIVE engine_validate_from(_, _, _, _)
engine_validate_from(ops, rs, entry, i) ==
    IF i > Len(rs) THEN [violations |-> <<>>, raised |-> FALSE, outcomes |-> <<>>]
    ELSE LET o == evaluate_rule(ops, rs[i], entry)
         IN  IF o.raised
             THEN [violations |-> <<>>, raised |-> TRUE, outcomes |-> <<o>>]
             ELSE LET rest == engine_validate_from(ops, rs, entry, i + 1)
                  IN  [violations |-> o.violation \o rest.violations,
                       raised     |-> rest.raised,
                       outcomes   |-> <<o>> \o rest.outcomes]

engine_validate_entry(ops, rs, entry) == engine_validate_from(ops, rs, entry, 1)

(***************************************************************************)
(* Inputs: the payloads a decoder delivers and the rule catalogs loaded.   *)
(***************************************************************************)
MaxRecords == 2     \* validate_entry calls made on the Validator

Payloads ==
    << [robot_id |-> PyStr("E1"), battery_level |-> PyInt(80), speed |-> PyInt(50)],
       [robot_id |-> PyStr("E1"), battery_level |-> PyStr("low"), speed |-> PyInt(110)],
       [battery_level |-> PyInt(5), speed |-> PyInt(110),
        movement_state |-> PyStr("moving"), timestamp |-> PyStr("t1")],
       [robot_id |-> PyList(<<PyStr("E1")>>), battery_level |-> PyInt(15), speed |-> PyInt(40)] >>

SimpleRule(id, field, operator, threshold, severity) ==
    [id |-> id, name |-> id, field |-> field, operator |-> operator,
     threshold |-> threshold, severity |-> severity, message |-> "",
     description |-> "", type |-> "simple",
     condition |-> NoClause, then |-> NoClause]

ConditionalRule(id, condition, then, severity) ==
    [id |-> id, name |-> id, field |-> "", operator |-> "",
     threshold |-> Null, severity |-> severity, message |-> "",
     description |-> "", type |-> "conditional",
     condition |-> condition, then |-> then]

ClauseDict(field, operator, value) ==
    Clause([k \in ClauseKeys |-> CASE k = "field" -> field
                                   [] k = "operator" -> operator
                                   [] k = "value" -> value])

battery_min == SimpleRule("battery_min", "battery_level", ">=", PyInt(20), "warning")
speed_max == SimpleRule("speed_max", "speed", "<=", PyInt(100), "error")
bad_operator == SimpleRule("bad_operator", "speed", "~=", PyInt(100), "error")
low_battery_idle ==
    ConditionalRule("low_battery_idle",
                    ClauseDict("battery_level", "<", PyInt(10)),
                    ClauseDict("movement_state", "in", PyList(<<PyStr("idle"), PyStr("stopped")>>)),
                    "critical")
missing_key ==
    ConditionalRule("missing_key",
                    Clause([k \in {"field", "operator"} |->
                               IF k = "field" THEN "battery_level" ELSE "<"]),
                    ClauseDict("movement_state", "==", PyStr("idle")),
                    "info")

Catalogs ==
    << <<>>,
       <<battery_min, speed_max>>,
       <<bad_operator, speed_max, missing_key, low_battery_idle, speed_max>> >>

\* The arguments of get_report and the readings of datetime.utcnow().
ReportArgs == << <<"", "">>, <<"rules.json", "logs.json">> >>
Times == {"T0", "T1"}

(***************************************************************************)
(* State.                                                                  *)
(***************************************************************************)
VARIABLES
    rules,                  \* RuleEngine.rules
    operators,              \* RuleEngine._operators
    on_violation,           \* Validator.on_violation: a listener is registered
    on_entry,               \* Validator.on_entry: a listener is registered
    total_entries,          \* Validator._total_entries
    total_passed,           \* Validator._total_passed
    total_violations,       \* Validator._total_violations
    violations_by_rule,     \* Validator._violations_by_rule
    violations_by_severity, \* Validator._violations_by_severity
    robot_summaries,        \* the dict Validator._robot_summaries refers to
    all_violations,         \* the list Validator._all_violations refers to
    report,                 \* the latest ValidationReport the caller got, if any
    stream,                 \* the generator made by validate_stream
    calls,                  \* history: the validate_entry calls since construction or reset
    n_calls,                \* history: validate_entry calls since construction
    since_report,           \* history: the calls made since the latest report
    repeated,               \* history: get_report was just called twice in a row
    evaluated,              \* the latest direct call of a method of the RuleEngine
    registered,             \* history: the register_operator calls made
    loaded,                 \* history: the load_rules / load_rules_from_dict calls made
    serialized,             \* the latest result of ValidationReport.to_dict, if any
    entry_count,            \* LogParser._entry_count
    source,                 \* the generator a parse method of the LogParser made
    parsed                  \* history: the inputs given to the LogParser and what it delivered

engine_vars == <<rules, operators>>
listener_vars == <<on_violation, on_entry>>
validator_vars == <<total_entries, total_passed, total_violations,
                    violations_by_rule, violations_by_severity,
                    robot_summaries, all_violations>>
parser_vars == <<entry_count, source, parsed>>
vars == <<engine_vars, listener_vars, validator_vars, report, stream,
          calls, n_calls, since_report, repeated, evaluated, registered, loaded, serialized, parser_vars>>

NoStream == [state |-> "none", pulled |-> 0, delivered |-> 0]
NoSource == [state |-> "none"]

\* Validator.__init__ (with RuleEngine.__init__ and a loaded catalog)
Init ==
    /\ \E c \in 1..Len(Catalogs) : rules = Catalogs[c]
    /\ operators = DefaultOperators
    /\ on_violation \in BOOLEAN
    /\ on_entry \in BOOLEAN
    /\ total_entries = 0
    /\ total_passed = 0
    /\ total_violations = 0
    /\ violations_by_rule = EmptyDict
    /\ violations_by_severity = EmptyDict
    /\ robot_summaries = EmptyDict
    /\ all_violations = <<>>
    /\ report = <<>>
    /\ stream = NoStream
    /\ calls = <<>>
    /\ n_calls = 0
    /\ since_report = {}
    /\ repeated = FALSE
    /\ evaluated = <<>>
    /\ registered = <<>>
    /\ loaded = <<>>
    /\ serialized = <<>>
    /\ entry_count = 0
    /\ source = NoSource
    /\ parsed = <<>>

(***************************************************************************)
(* Validator.                                                              *)
(***************************************************************************)
\* Mutant: a key that has a count keeps it.
Inc_once(f, k) == IF k \in DOMAIN f THEN f ELSE f @@ (k :> 1)

\* defaultdict(int)[k] += 1
Inc(f, k) == IF k \in DOMAIN f THEN [f EXCEPT ![k] = @ + 1] ELSE f @@ (k :> 1)

RECURSIVE IncAll(_, _)
IncAll(f, ks) == IF ks = <<>> THEN f ELSE IncAll(Inc(f, Head(ks)), Tail(ks))

\* RobotSummary(robot_id=robot_id)
RobotSummary(robot_id) ==
    [robot_id |-> robot_id, total_entries |-> 0, violations_count |-> 0,
     status |-> "pass", violations |-> <<>>]

\* Mutant: the two statuses the wrong way round.
EntryStatus_swapped(violations) == IF violations = <<>> THEN "fail" ELSE "pass"

\* ValidationStatus.PASS if not violations else ValidationStatus.FAIL
EntryStatus(violations) == IF violations = <<>> THEN "pass" ELSE "fail"

\* EntryResult
EntryResult(entry, status, violations) ==
    [log_entry |-> entry, status |-> status, violations |-> violations]

\* EntryResult.passed
passed(result) == result.status = "pass"

Gcd(a, b) == CHOOSE g \in 1..(IF a > b THEN a ELSE b) :
                /\ a % g = 0 /\ b % g = 0
                /\ \A h \in (g + 1)..(IF a > b THEN a ELSE b) : ~(a % h = 0 /\ b % h = 0)

\* A number as the fraction <<numerator, denominator>> in lowest terms.
Ratio(n, d) == IF n = 0 THEN <<0, 1>> ELSE <<n \div Gcd(n, d), d \div Gcd(n, d)>>

\* Mutant: the share of the records that failed.
pass_rate_of_failed(n_passed, n_entries) ==
    IF n_entries = 0 THEN Ratio(100, 1)
    ELSE LET q == Ratio(n_entries - n_passed, n_entries)
         IN  Ratio(q[1] * 100, q[2])

\* Validator.pass_rate: 100.0 for no entry, else (passed / entries) * 100,
\* as an exact fraction (the rounding of the float division and of the
\* float product is not modelled).
pass_rate(n_passed, n_entries) ==
    IF n_entries = 0 THEN Ratio(100, 1)
    ELSE LET q == Ratio(n_passed, n_entries)
         IN  Ratio(q[1] * 100, q[2])

\* Mutant: the status of a summary is the status of its latest record.
update_summary_latest(summary, recorded) ==
    [summary EXCEPT
        !.total_entries = @ + 1,
        !.violations_count = @ + Len(recorded),
        !.status = IF recorded = <<>> THEN "pass" ELSE "fail",
        !.violations = @ \o recorded]

\* Validator.validate_entry, lines 91-103: what a record and the violations
\* recorded for it do to the summary of its robot.
update_summary(summary, recorded) ==
    [summary EXCEPT
        !.total_entries = @ + 1,
        !.violations_count = @ + Len(recorded),
        !.status = IF recorded = <<>> THEN @ ELSE "fail",
        !.violations = @ \o recorded]

\* The Validator as a listener finds it when validate_entry calls it in or
\* after the j-th turn of the loop over the violations (lines 95-107): the
\* first j violations are counted and listed.
at_violation(entry, violations, j) ==
    LET done    == SubSeq(violations, 1, j)
        summary == IF entry.robot_id \in DOMAIN robot_summaries
                   THEN robot_summaries[entry.robot_id]
                   ELSE RobotSummary(entry.robot_id)
    IN  [total_violations       |-> total_violations + Len(done),
         violations_by_rule     |-> IncAll(violations_by_rule,
                                           [i \in 1..Len(done) |-> done[i].rule_id]),
         violations_by_severity |-> IncAll(violations_by_severity,
                                           [i \in 1..Len(done) |-> done[i].severity]),
         all_violations         |-> all_violations \o done,
         robot_summary          |-> update_summary(summary, done)]

\* Validator.validate_entry from line 78 on, res being what the rule engine
\* gave at line 75.  vraise and eraise are the behaviour of the
\* listeners in this call: the violation listener raises when it is called
\* for the vraise-th violation (0: it returns every time), the entry
\* listener raises when eraise.  The call ends with an exception when a
\* listener raises and when the robot id cannot be a dict key.
update_statistics(entry, res, vraise, eraise) ==
    LET violations == res.violations
        status     == EntryStatus(violations)
        result     == EntryResult(entry, status, violations)
        keyed      == Hashable(entry.robot_id)
        recorded   == IF ~keyed THEN <<>>
                      ELSE IF vraise = 0 THEN violations
                      ELSE SubSeq(violations, 1, vraise)
        summary    == IF entry.robot_id \in DOMAIN robot_summaries
                      THEN robot_summaries[entry.robot_id]
                      ELSE RobotSummary(entry.robot_id)
        updated    == update_summary(summary, recorded)
        returned   == ~res.raised /\ keyed /\ vraise = 0 /\ ~eraise
        \* the calls of on_violation (line 107) and of on_entry (line 111)
        notified   == IF on_violation /\ keyed
                      THEN [j \in 1..Len(recorded) |->
                               [violation |-> violations[j],
                                state     |-> at_violation(entry, violations, j)]]
                      ELSE <<>>
        entry_notified ==
                      IF on_entry /\ keyed /\ vraise = 0
                      THEN <<[result   |-> result,
                              state    |-> at_violation(entry, violations, Len(violations)),
                              notified |-> Len(notified)]>>
                      ELSE <<>>
    IN  /\ vraise \in 0..Len(violations)
        /\ vraise > 0 => on_violation /\ keyed /\ ~res.raised
        /\ eraise => on_entry /\ keyed /\ vraise = 0 /\ ~res.raised
        /\ IF res.raised
           THEN UNCHANGED validator_vars
           ELSE /\ total_entries' = total_entries + 1
                /\ total_passed' = IF passed(result) THEN total_passed + 1 ELSE total_passed
                /\ total_violations' = total_violations + Len(recorded)
                /\ violations_by_rule' =
                       IncAll(violations_by_rule,
                              [i \in 1..Len(recorded) |-> recorded[i].rule_id])
                /\ violations_by_severity' =
                       IncAll(violations_by_severity,
                              [i \in 1..Len(recorded) |-> recorded[i].severity])
                /\ all_violations' = all_violations \o recorded
                /\ robot_summaries' =
                       IF keyed
                       THEN [k \in DOMAIN robot_summaries \cup {entry.robot_id} |->
                                IF k = entry.robot_id THEN updated ELSE robot_summaries[k]]
                       ELSE robot_summaries
        /\ calls' = Append(calls, [entry      |-> entry,
                                   violations |-> violations,
                                   outcomes   |-> res.outcomes,
                                   recorded   |-> Len(recorded),
                                   notified   |-> notified,
                                   entry_notified |-> entry_notified,
                                   raised_in  |-> IF vraise > 0 THEN "on_violation"
                                                  ELSE IF eraise THEN "on_entry"
                                                  ELSE IF ~keyed THEN "validate_entry"
                                                  ELSE "",
                                   result     |-> IF returned THEN <<result>> ELSE <<>>])
        /\ n_calls' = n_calls + 1
        /\ since_report' = IF report = <<>> THEN {} ELSE since_report \cup {"validate_entry"}
        /\ repeated' = FALSE
        /\ UNCHANGED <<engine_vars, listener_vars, report, evaluated, registered, loaded, serialized, parser_vars>>

\* Validator.validate_entry: line 75 asks the rule engine for the
\* violations of the entry, the rest of the method works on that list.
validate_entry(entry, vraise, eraise) ==
    update_statistics(entry, engine_validate_entry(operators, rules, entry), vraise, eraise)

\* A direct call of Validator.validate_entry on LogEntry.from_dict(data).
\* A caller feeds the Validator by direct calls or through one stream.
Process ==
    /\ n_calls < MaxRecords
    /\ stream.state = "none"
    /\ \E p \in 1..Len(Payloads), vraise \in 0..Len(rules), eraise \in BOOLEAN :
           validate_entry(LogEntry_from_dict(Payloads[p], 0), vraise, eraise)
    /\ UNCHANGED stream

\* Validator.validate_stream(entries): calling it makes a generator and
\* runs nothing.
ValidateStream ==
    /\ stream.state = "none"
    /\ n_calls = 0
    /\ stream' = [state |-> "suspended", pulled |-> 0, delivered |-> 0]
    /\ UNCHANGED <<engine_vars, listener_vars, validator_vars, report,
                   calls, n_calls, since_report, repeated, evaluated, registered, loaded, serialized, parser_vars>>

\* next() on the generator when the source has a record: pull it (numbered
\* as LogParser.parse_entries numbers it), validate it and yield the result.
\* An exception in validate_entry ends the generator.
StreamNext ==
    /\ stream.state = "suspended"
    /\ n_calls < MaxRecords
    /\ \E p \in 1..Len(Payloads), vraise \in 0..Len(rules), eraise \in BOOLEAN :
           validate_entry(LogEntry_from_dict(Payloads[p], stream.pulled), vraise, eraise)
    /\ stream' = IF calls'[Len(calls')].result # <<>>
                 THEN [stream EXCEPT !.pulled = @ + 1, !.delivered = @ + 1]
                 ELSE [stream EXCEPT !.pulled = @ + 1, !.state = "failed"]

\* next() on the generator when the source is exhausted: StopIteration.
StreamEnd ==
    /\ stream.state = "suspended"
    /\ stream' = [stream EXCEPT !.state = "exhausted"]
    /\ UNCHANGED <<engine_vars, listener_vars, validator_vars, report,
                   calls, n_calls, since_report, repeated, evaluated, registered, loaded, serialized, parser_vars>>

(***************************************************************************)
(* Reports.  A field of a report that holds a dict or a list holds a       *)
(* reference to the object.  The object is the one the Validator refers to *)
(* (live) until reset makes the Validator refer to a new one; from then on *)
(* nothing but the report refers to the object and its contents stay as    *)
(* they were at the reset (value).                                         *)
(***************************************************************************)
LiveRef == [live |-> TRUE, value |-> <<>>]
Detached(value) == [live |-> FALSE, value |-> value]
Deref(ref, current) == IF ref.live THEN current ELSE ref.value

\* ValidationReport(...) as get_report builds it: the counters are copied,
\* dict(...) copies the two counter dicts, the summary dict and the
\* violation list are passed as they are.
ValidationReport(rules_file, input_file, now) ==
    [total_entries          |-> total_entries,
     total_passed           |-> total_passed,
     total_violations       |-> total_violations,
     pass_rate              |-> pass_rate(total_passed, total_entries),
     violations_by_rule     |-> violations_by_rule,
     violations_by_severity |-> violations_by_severity,
     robot_summaries        |-> LiveRef,
     violations             |-> LiveRef,
     generated_at           |-> now,
     rules_file             |-> rules_file,
     input_file             |-> input_file]

\* What is left of a report's references when the Validator lets go of its
\* dict and its list.
Detach(r) ==
    [r EXCEPT !.robot_summaries = IF @.live THEN Detached(robot_summaries) ELSE @,
              !.violations = IF @.live THEN Detached(all_violations) ELSE @]

\* Mutant: get_report hands its violation list over to the report and
\* starts a new one.
GetReport_draining ==
    /\ \E a \in 1..Len(ReportArgs), now \in Times :
           /\ report' = <<[ValidationReport(ReportArgs[a][1], ReportArgs[a][2], now)
                              EXCEPT !.violations = Detached(all_violations)]>>
           /\ repeated' = /\ report # <<>>
                           /\ since_report = {}
                           /\ report[1].rules_file = ReportArgs[a][1]
                           /\ report[1].input_file = ReportArgs[a][2]
    /\ since_report' = {}
    /\ all_violations' = <<>>
    /\ UNCHANGED <<engine_vars, listener_vars, total_entries, total_passed,
                   total_violations, violations_by_rule, violations_by_severity,
                   robot_summaries, stream, calls, n_calls, evaluated, registered, loaded, serialized, parser_vars>>

\* Mutant: get_report ends the run, it resets the Validator.
GetReport_resetting ==
    /\ \E a \in 1..Len(ReportArgs), now \in Times :
           /\ report' = <<Detach(ValidationReport(ReportArgs[a][1], ReportArgs[a][2], now))>>
           /\ repeated' = /\ report # <<>>
                           /\ since_report = {}
                           /\ report[1].rules_file = ReportArgs[a][1]
                           /\ report[1].input_file = ReportArgs[a][2]
    /\ since_report' = {}
    /\ total_entries' = 0
    /\ total_passed' = 0
    /\ total_violations' = 0
    /\ violations_by_rule' = EmptyDict
    /\ violations_by_severity' = EmptyDict
    /\ robot_summaries' = EmptyDict
    /\ all_violations' = <<>>
    /\ UNCHANGED <<engine_vars, listener_vars, stream, calls, n_calls, evaluated, registered, loaded, serialized, parser_vars>>

\* Validator.get_report; generated_at is the reading of the clock.
GetReport ==
    /\ \E a \in 1..Len(ReportArgs), now \in Times :
           /\ report' = <<ValidationReport(ReportArgs[a][1], ReportArgs[a][2], now)>>
           /\ repeated' = /\ report # <<>>
                           /\ since_report = {}
                           /\ report[1].rules_file = ReportArgs[a][1]
                           /\ report[1].input_file = ReportArgs[a][2]
    /\ since_report' = {}
    /\ UNCHANGED <<engine_vars, listener_vars, validator_vars, stream, calls, n_calls,
                   evaluated, registered, loaded, serialized, parser_vars>>

\* Mutant: reset forgets the summaries.
Reset_keeping_summaries ==
    /\ total_entries' = 0
    /\ total_passed' = 0
    /\ total_violations' = 0
    /\ violations_by_rule' = EmptyDict
    /\ violations_by_severity' = EmptyDict
    /\ robot_summaries' = robot_summaries
    /\ all_violations' = <<>>
    /\ report' = [i \in 1..Len(report) |->
                     [report[i] EXCEPT !.violations =
                         IF @.live THEN Detached(all_violations) ELSE @]]
    /\ calls' = <<>>
    /\ since_report' = IF report = <<>> THEN {} ELSE since_report \cup {"reset"}
    /\ repeated' = FALSE
    /\ UNCHANGED <<engine_vars, listener_vars, stream, n_calls, evaluated, registered, loaded, serialized, parser_vars>>

\* Validator.reset
Reset ==
    /\ total_entries' = 0
    /\ total_passed' = 0
    /\ total_violations' = 0
    /\ violations_by_rule' = EmptyDict
    /\ violations_by_severity' = EmptyDict
    /\ robot_summaries' = EmptyDict
    /\ all_violations' = <<>>
    /\ report' = [i \in 1..Len(report) |-> Detach(report[i])]
    /\ calls' = <<>>
    /\ since_report' = IF report = <<>> THEN {} ELSE since_report \cup {"reset"}
    /\ repeated' = FALSE
    /\ UNCHANGED <<engine_vars, listener_vars, stream, n_calls, evaluated, registered, loaded, serialized, parser_vars>>

Next == Process \/ ValidateStream \/ StreamNext \/ StreamEnd \/ GetReport \/ Reset

Spec == Init /\ [][Next]_vars

(***************************************************************************)
(* Serialization of a report (ValidationReport.to_dict).  A number rounded *)
(* to two decimals is held as the integer number of its hundredths.        *)
(***************************************************************************)
\* round(num / den * 100, 2) in hundredths: the integer nearest to
\* num * 10000 / den (no quotient of the modelled runs lies halfway between
\* two integers; the rounding errors of the float operations are not
\* modelled).  num may be negative, \div rounds down.
RoundedPercent(num, den) == (2 * num * 10000 + den) \div (2 * den)

Max(a, b) == IF a >= b THEN a ELSE b

\* RobotSummary.to_dict
RobotSummary_to_dict(summary) ==
    [robot_id         |-> summary.robot_id,
     total_entries    |-> summary.total_entries,
     violations_count |-> summary.violations_count,
     status           |-> summary.status,
     pass_rate        |-> RoundedPercent(summary.total_entries - summary.violations_count,
                                         Max(summary.total_entries, 1))]

\* Violation.to_dict
Violation_to_dict(v) ==
    [rule_id      |-> v.rule_id,
     rule_name    |-> v.rule_name,
     severity     |-> v.severity,
     message      |-> v.message,
     timestamp    |-> v.timestamp,
     robot_id     |-> v.robot_id,
     field        |-> v.field,
     actual_value |-> v.actual_value,
     expected     |-> v.expected,
     log_index    |-> v.log_index]

\* ValidationReport.to_dict on a report r: the summaries and the violations
\* are read through the references the report holds.
ValidationReport_to_dict(r) ==
    LET summaries  == Deref(r.robot_summaries, robot_summaries)
        violations == Deref(r.violations, all_violations)
    IN  [summary |-> [total_entries    |-> r.total_entries,
                      total_passed     |-> r.total_passed,
                      total_violations |-> r.total_violations,
                      pass_rate        |-> RoundedPercent(r.pass_rate[1], r.pass_rate[2] * 100),
                      generated_at     |-> r.generated_at,
                      rules_file       |-> r.rules_file,
                      input_file       |-> r.input_file],
         violations_by_rule     |-> r.violations_by_rule,
         violations_by_severity |-> r.violations_by_severity,
         robots     |-> [rid \in DOMAIN summaries |-> RobotSummary_to_dict(summaries[rid])],
         violations |-> [i \in 1..Len(violations) |-> Violation_to_dict(violations[i])]]

\* report.to_dict() on the report the caller holds; at is the number of
\* validate_entry calls made before it (history).
ToDict ==
    /\ report # <<>>
    /\ serialized' = <<[dict |-> ValidationReport_to_dict(report[1]), at |-> Len(calls)]>>
    /\ UNCHANGED <<engine_vars, listener_vars, validator_vars, report, stream,
                   calls, n_calls, since_report, repeated, evaluated, registered,
                   loaded, parser_vars>>

ReportNext == Process \/ GetReport \/ ToDict

\* A Validator made without listeners.
ReportInit ==
    /\ Init
    /\ ~on_violation
    /\ ~on_entry

SpecReport == ReportInit /\ [][ReportNext]_vars

(***************************************************************************)
(* The rule engine on its own: RuleEngine.evaluate_rule called directly on *)
(* a rule and a log entry.                                                 *)
(***************************************************************************)
EvalPayloads ==
    Payloads \o
    << [robot_id |-> PyStr("E2"), battery_level |-> Null, movement_state |-> PyStr("idle"),
        location |-> PyDict([k \in {"x"} |-> PyInt(100)])],
       [robot_id |-> PyStr("E2"), battery_level |-> PyInt(5), movement_state |-> PyStr("idle"),
        speed |-> PyList(<<PyInt(1)>>)] >>

EvalFields == {"battery_level", "movement_state", "location.x"}
EvalOperators == {">=", "<", "==", "in", "~="}
EvalValues == <<PyInt(10), PyStr("idle"), PyList(<<PyStr("idle"), PyStr("stopped")>>)>>

\* The clauses of a conditional rule: None, {}, a dict without "value", and
\* the dicts with the three keys.
EvalClauses ==
    {[isNone |-> n, d |-> EmptyDict] : n \in BOOLEAN}
    \cup {Clause([k \in {"field", "operator"} |-> IF k = "field" THEN f ELSE o]) :
             f \in EvalFields, o \in {"<"}}
    \cup {ClauseDict(f, o, EvalValues[v]) :
             f \in EvalFields, o \in EvalOperators, v \in 1..Len(EvalValues)}

EvalRules ==
    {SimpleRule("simple", f, o, EvalValues[v], "warning") :
        f \in EvalFields, o \in EvalOperators, v \in 1..Len(EvalValues)}
    \cup {ConditionalRule("conditional", c, t, "critical") :
             c \in EvalClauses, t \in EvalClauses}

EvalInit ==
    /\ Init
    /\ rules = <<>>
    /\ ~on_violation
    /\ ~on_entry

\* RuleEngine.evaluate_rule(rule, entry)
EvaluateRule ==
    /\ evaluated = <<>>
    /\ \E rule \in EvalRules, p \in 1..Len(EvalPayloads) :
           LET entry == LogEntry_from_dict(EvalPayloads[p], 0)
           IN  evaluated' = <<[rule |-> rule, entry |-> entry,
                               outcome |-> evaluate_rule(operators, rule, entry)]>>
    /\ UNCHANGED <<engine_vars, listener_vars, validator_vars, report, stream,
                   calls, n_calls, since_report, repeated, registered, loaded, serialized, parser_vars>>

EvalNext == EvaluateRule

SpecEval == EvalInit /\ [][EvalNext]_vars

(***************************************************************************)
(* The rule engine on its own, with custom operators: register_operator,   *)
(* then a direct call of evaluate_condition, get_field_value or            *)
(* evaluate_rule.                                                          *)
(***************************************************************************)
MaxRegistrations == 2   \* register_operator calls made on the engine

\* Mutant: a name that is registered keeps its predicate.
register_operator_keeping(ops, name, func) ==
    [n \in DOMAIN ops \cup {name} |-> IF n \in DOMAIN ops THEN ops[n] ELSE func]

\* RuleEngine.register_operator: self._operators[name] = func
register_operator(ops, name, func) ==
    [n \in DOMAIN ops \cup {name} |-> IF n = name THEN func ELSE ops[n]]

\* The names registered and the predicates registered for them: the
\* built-in '>=' and a new name; the predicate of '>' and a custom one.
RegisterNames == {">=", "divisible_by"}
RegisterPredicates == {">", "divisible_by"}

RegisterOperator ==
    /\ evaluated = <<>>
    /\ Len(registered) < MaxRegistrations
    /\ \E name \in RegisterNames, func \in RegisterPredicates :
           /\ operators' = register_operator(operators, name, func)
           /\ registered' = Append(registered, <<name, func>>)
    /\ UNCHANGED <<rules, listener_vars, validator_vars, report, stream,
                   calls, n_calls, since_report, repeated, evaluated, loaded, serialized, parser_vars>>

\* The log entries of the direct calls: entries made by LogEntry.from_dict
\* from payloads with nested maps, and an entry whose raw_data is no dict.
EnginePayloads ==
    << [a |-> PyDict([b |-> PyDict([c |-> PyInt(7)])]), battery_level |-> PyInt(45)],
       [a |-> PyDict([b |-> Null]), battery_level |-> PyInt(7)],
       [a |-> PyInt(5), battery_level |-> PyStr("low")],
       [a |-> PyDict([k \in {"", "c"} |-> IF k = "" THEN PyDict([c |-> PyBool(TRUE)])
                                                   ELSE PyList(<<PyInt(1)>>)]),
        battery_level |-> Null],
       EmptyDict >>

EngineEntries ==
    {LogEntry_from_dict(EnginePayloads[p], 0) : p \in 1..Len(EnginePayloads)}
    \cup {[timestamp |-> PyStr(""), robot_id |-> PyStr("E1"),
           raw_data |-> PyList(<<PyInt(1)>>), index |-> 0]}

EnginePaths == {"a", "a.b", "a.b.c", "a.b.c.d", "a..c", "a.", "b", "battery_level"}
EngineFields == {"battery_level", "a.b.c", "b"}
EngineOperators == {">=", "==", "divisible_by", "~=", "between"}
EngineValues == <<PyInt(5), PyInt(0), PyStr("low")>>
EngineRules ==
    {SimpleRule("custom", f, o, EngineValues[v], "warning") :
        f \in EngineFields, o \in EngineOperators, v \in 1..Len(EngineValues)}

\* RuleEngine.evaluate_condition(entry, field, operator, value)
EvaluateCondition ==
    /\ evaluated = <<>>
    /\ \E entry \in EngineEntries, field \in EngineFields,
          operator \in EngineOperators, v \in 1..Len(EngineValues) :
           evaluated' = <<[call     |-> "evaluate_condition",
                           entry    |-> entry,
                           field    |-> field,
                           operator |-> operator,
                           value    |-> EngineValues[v],
                           result   |-> evaluate_condition(operators, entry, field,
                                                           operator, EngineValues[v])]>>
    /\ UNCHANGED <<engine_vars, listener_vars, validator_vars, report, stream,
                   calls, n_calls, since_report, repeated, registered, loaded, serialized, parser_vars>>

\* RuleEngine.get_field_value(entry, field)
GetFieldValue ==
    /\ evaluated = <<>>
    /\ \E entry \in EngineEntries, field \in EnginePaths :
           evaluated' = <<[call  |-> "get_field_value",
                           entry |-> entry,
                           field |-> field,
                           value |-> get_field_value(entry, field)]>>
    /\ UNCHANGED <<engine_vars, listener_vars, validator_vars, report, stream,
                   calls, n_calls, since_report, repeated, registered, loaded, serialized, parser_vars>>

\* RuleEngine.evaluate_rule(rule, entry) on a rule that may name a custom
\* operator.
EvaluateCustomRule ==
    /\ evaluated = <<>>
    /\ \E rule \in EngineRules, entry \in EngineEntries :
           evaluated' = <<[call    |-> "evaluate_rule",
                           rule    |-> rule,
                           entry   |-> entry,
                           outcome |-> evaluate_rule(operators, rule, entry)]>>
    /\ UNCHANGED <<engine_vars, listener_vars, validator_vars, report, stream,
                   calls, n_calls, since_report, repeated, registered, loaded, serialized, parser_vars>>

EngineNext == RegisterOperator \/ EvaluateCondition \/ GetFieldValue \/ EvaluateCustomRule

SpecEngine == EvalInit /\ [][EngineNext]_vars

(***************************************************************************)
(* Loading the rule catalog: Rule.from_dict, load_rules_from_dict and      *)
(* load_rules, followed by RuleEngine.validate_entry on the catalog.       *)
(***************************************************************************)
MaxLoads == 2   \* load_rules / load_rules_from_dict calls made on the engine

\* The values of the Severity enum.
Severities == {"info", "warning", "error", "critical"}

\* dict.get(key, default)
Get(data, key, default) == IF key \in DOMAIN data THEN data[key] ELSE default

\* What a constructor gives: the object made, or the exception raised.
Made(x) == [error |-> "", made |-> <<x>>]
Raised(e) == [error |-> e, made |-> <<>>]

\* Rule.from_dict: the Rule, or the exception raised (ValueError of
\* Severity(...) for a severity that is no member of the enum, KeyError of
\* data["id"]).
Rule_from_dict(data) ==
    IF Get(data, "severity", "warning") \notin Severities THEN Raised("ValueError")
    ELSE IF "id" \notin DOMAIN data THEN Raised("KeyError")
    ELSE Made(
         [id          |-> data["id"],
          name        |-> Get(data, "name", data["id"]),
          field       |-> Get(data, "field", ""),
          operator    |-> Get(data, "operator", ""),
          threshold   |-> Get(data, "threshold", Null),
          severity    |-> Get(data, "severity", "warning"),
          message     |-> Get(data, "message", ""),
          description |-> Get(data, "description", ""),
          type        |-> Get(data, "type", "simple"),
          condition   |-> Get(data, "condition", NoClause),
          then        |-> Get(data, "then", NoClause)])

\* The outcome of a load: the catalog of the engine after it and the
\* exception that ended it ("" when it returned).
Loaded(rs, error) == [rules |-> rs, error |-> error]

\* Mutant: the rules are put in the catalog one by one, so a load that
\* fails leaves the rules made before the failure.
load_rules_from_dict_partial(old, data) ==
    LET rules_data == Get(data, "rules", <<>>)
        made       == [i \in 1..Len(rules_data) |-> Rule_from_dict(rules_data[i])]
        failed     == {i \in 1..Len(made) : made[i].error # ""}
    IN  IF failed = {} THEN Loaded([i \in 1..Len(made) |-> made[i].made[1]], "")
        ELSE LET first == CHOOSE i \in failed : \A j \in failed : i <= j
             IN  Loaded([i \in 1..(first - 1) |-> made[i].made[1]], made[first].error)

\* RuleEngine.load_rules_from_dict on an engine whose catalog is old: the
\* list of Rule.from_dict(r) is built first and assigned to self.rules when
\* it is complete.
load_rules_from_dict(old, data) ==
    LET rules_data == Get(data, "rules", <<>>)
        made       == [i \in 1..Len(rules_data) |-> Rule_from_dict(rules_data[i])]
        failed     == {i \in 1..Len(made) : made[i].error # ""}
    IN  IF failed = {} THEN Loaded([i \in 1..Len(made) |-> made[i].made[1]], "")
        ELSE LET first == CHOOSE i \in failed : \A j \in failed : i <= j
             IN  Loaded(old, made[first].error)

\* RuleEngine.load_rules on a path: no such file, a file that is no JSON
\* document, or a file with a rule document.
load_rules(old, file) ==
    IF ~file.exists THEN Loaded(old, "FileNotFoundError")
    ELSE IF ~file.json THEN Loaded(old, "JSONDecodeError")
    ELSE load_rules_from_dict(old, file.data)

\* Rule objects of a rule document.
object_battery_min ==
    [id |-> "battery_min", field |-> "battery_level", operator |-> ">=",
     threshold |-> PyInt(20)]
object_speed_max ==
    [id |-> "speed_max", name |-> "Speed limit", field |-> "speed", operator |-> "<=",
     threshold |-> PyInt(100), severity |-> "error", type |-> "simple",
     message |-> "too fast"]
object_without_id ==
    [name |-> "No id", field |-> "speed", operator |-> "<=", threshold |-> PyInt(100)]
object_bad_severity ==
    [id |-> "bad_severity", field |-> "speed", operator |-> "<=",
     threshold |-> PyInt(100), severity |-> "fatal"]
object_low_battery_idle ==
    [id |-> "low_battery_idle", type |-> "conditional", severity |-> "critical",
     condition |-> ClauseDict("battery_level", "<", PyInt(10)),
     then |-> ClauseDict("movement_state", "in",
                         PyList(<<PyStr("idle"), PyStr("stopped")>>))]
object_no_clauses == [id |-> "no_clauses", type |-> "conditional"]
object_condition_only ==
    [id |-> "condition_only", type |-> "conditional",
     condition |-> ClauseDict("battery_level", "<", PyInt(10))]
object_then_only ==
    [id |-> "then_only", type |-> "conditional", condition |-> NoClause,
     then |-> ClauseDict("movement_state", "in",
                         PyList(<<PyStr("idle"), PyStr("stopped")>>))]
object_empty_condition ==
    [id |-> "empty_condition", type |-> "conditional", condition |-> Clause(EmptyDict),
     then |-> ClauseDict("speed", "<=", PyInt(100))]
object_empty_then ==
    [id |-> "empty_then", type |-> "conditional",
     condition |-> ClauseDict("speed", ">", PyInt(100)), then |-> Clause(EmptyDict)]

\* Rule documents: {"rules": [...]}, and a document without "rules".
RuleDocuments ==
    { [rules |-> <<object_battery_min, object_speed_max>>],
      [rules |-> <<object_speed_max, object_battery_min, object_speed_max>>],
      [rules |-> <<object_battery_min, object_without_id, object_speed_max>>],
      [rules |-> <<object_speed_max, object_bad_severity>>],
      [rules |-> <<object_no_clauses, object_battery_min, object_condition_only,
                   object_then_only, object_low_battery_idle, object_empty_condition,
                   object_speed_max, object_empty_then>>],
      [rules |-> <<>>],
      [version |-> "1"] }

RuleFiles ==
    { [exists |-> FALSE, json |-> FALSE, data |-> [rules |-> <<>>]],
      [exists |-> TRUE, json |-> FALSE, data |-> [rules |-> <<>>]],
      [exists |-> TRUE, json |-> TRUE, data |-> [rules |-> <<object_battery_min>>]],
      [exists |-> TRUE, json |-> TRUE, data |-> [rules |-> <<object_without_id>>]] }

\* What a load does to the engine, and the record of it.
Load(source_kind, data, outcome) ==
    /\ evaluated = <<>>
    /\ Len(loaded) < MaxLoads
    /\ rules' = outcome.rules
    /\ loaded' = Append(loaded, [call   |-> source_kind,
                                 data   |-> data,
                                 before |-> rules,
                                 after  |-> outcome.rules,
                                 error  |-> outcome.error])
    /\ UNCHANGED <<operators, listener_vars, validator_vars, report, stream,
                   calls, n_calls, since_report, repeated, evaluated, registered,
                   serialized, parser_vars>>

\* RuleEngine.load_rules_from_dict(data)
LoadRulesFromDict ==
    \E data \in RuleDocuments :
        Load("load_rules_from_dict", data, load_rules_from_dict(rules, data))

\* RuleEngine.load_rules(file_path)
LoadRules ==
    \E file \in RuleFiles :
        Load("load_rules", IF file.exists /\ file.json THEN file.data ELSE [rules |-> <<>>],
             load_rules(rules, file))

\* RuleEngine.validate_entry(entry) on the catalog loaded.
EngineValidateEntry ==
    /\ evaluated = <<>>
    /\ \E p \in 1..Len(Payloads) :
           LET entry == LogEntry_from_dict(Payloads[p], 0)
           IN  evaluated' = <<[call   |-> "validate_entry",
                               entry  |-> entry,
                               result |-> engine_validate_entry(operators, rules, entry)]>>
    /\ UNCHANGED <<engine_vars, listener_vars, validator_vars, report, stream,
                   calls, n_calls, since_report, repeated, registered, loaded,
                   serialized, parser_vars>>

LoadNext == LoadRulesFromDict \/ LoadRules \/ EngineValidateEntry

SpecLoad == EvalInit /\ [][LoadNext]_vars

(***************************************************************************)
(* The decoder (parser.py): one LogParser that is given inputs one after   *)
(* the other; each parse method makes a generator, which the consumer      *)
(* pulls record by record and may leave before its end.                    *)
(***************************************************************************)
MaxInputs == 2  \* parse_file / parse_entries calls made on the LogParser

\* A line of a text: blank, a comment (#...), text that is no JSON, text
\* that is no JSON and starts with '[', or a JSON value.
Line(kind, value) == [kind |-> kind, value |-> value]
Blank == Line("blank", Null)
Comment == Line("comment", Null)
Invalid == Line("invalid", Null)
InvalidArray == Line("invalid_array", Null)
Json(value) == Line("json", value)

Object1 == PyDict([robot_id |-> PyStr("E1"), timestamp |-> PyStr("t1")])
Object2 == PyDict([robot_id |-> PyStr("E2")])
Object3 == PyDict([battery_level |-> PyInt(5)])

\* The texts of the files read: line-delimited JSON, JSON array documents
\* (the document is one line), and mixtures.
Texts ==
    { <<>>,
      <<Json(Object1), Json(Object2)>>,
      <<Blank, Comment, Invalid, Json(Object1), InvalidArray, Json(Object2)>>,
      <<Json(Object1), Json(PyInt(5)), Json(Object2)>>,
      <<Json(PyList(<<PyInt(1)>>)), Json(Object1)>>,
      <<Json(PyList(<<Object1, Object2, Object3>>))>>,
      <<Blank, Json(PyList(<<Object1, Object2>>)), Blank>>,
      <<Json(PyList(<<Object1, PyInt(5), Object2>>))>>,
      <<InvalidArray>>,
      <<InvalidArray, Json(Object1)>> }

\* The lists handed to parse_entries.
EntryLists == { <<>>, <<Object1, Object2>>, <<Object3>> }

\* The first non-whitespace character of the line is '['.
StartsArray(line) ==
    \/ line.kind = "json" /\ Tag(line.value) = "list"
    \/ line.kind = "invalid_array"

\* LogParser._parse_stream up to the choice of the format: nothing to read
\* (EOF before a non-whitespace character), the rest of the text as a JSON
\* array (json.loads of it gives a list, or raises), or line by line from
\* the first line that is not blank.
parse_stream(lines) ==
    LET nonblank == {i \in 1..Len(lines) : lines[i].kind # "blank"}
    IN  IF nonblank = {} THEN [mode |-> "lines", items |-> <<>>]
        ELSE LET first == CHOOSE i \in nonblank : \A j \in nonblank : i <= j
             IN  IF StartsArray(lines[first])
                 THEN IF lines[first].kind = "json" /\ nonblank = {first}
                      THEN [mode |-> "array", items |-> lines[first].value[2]]
                      ELSE [mode |-> "array_invalid", items |-> <<>>]
                 ELSE [mode |-> "lines", items |-> SubSeq(lines, first, Len(lines))]

\* What one next() on the generator does: the log entry yielded (or none),
\* the exception that left the generator ("" for none), the generator and
\* the counter after it.
Pulled(out, error, state, pos, count) ==
    [out |-> out, error |-> error, state |-> state, pos |-> pos, count |-> count]

\* LogParser._parse_json_array (after json.loads) and LogParser.parse_entries:
\* for i, entry in enumerate(data): count, then LogEntry.from_dict(entry, i),
\* which raises AttributeError for an entry that is no dict.
next_enumerated(items, pos, count) ==
    IF pos >= Len(items) THEN Pulled(<<>>, "", "done", pos, count)
    ELSE IF Tag(items[pos + 1]) = "map"
    THEN Pulled(<<LogEntry_from_dict(items[pos + 1][2], pos)>>, "", "suspended",
                pos + 1, count + 1)
    ELSE Pulled(<<>>, "AttributeError", "failed", pos + 1, count + 1)

\* LogParser._parse_jsonl_line over the lines from pos on: blank lines,
\* comments and lines json.loads rejects yield nothing; a JSON value is
\* counted and given to LogEntry.from_dict with index count - 1.
next_jsonl(items, pos, count) ==
    LET values == {i \in (pos + 1)..Len(items) : items[i].kind = "json"}
    IN  IF values = {} THEN Pulled(<<>>, "", "done", Len(items), count)
        ELSE LET i == CHOOSE x \in values : \A y \in values : x <= y
             IN  IF Tag(items[i].value) = "map"
                 THEN Pulled(<<LogEntry_from_dict(items[i].value[2], count)>>, "",
                             "suspended", i, count + 1)
                 ELSE Pulled(<<>>, "AttributeError", "failed", i, count + 1)

\* One next() on a generator of the LogParser.
parser_next(src, count) ==
    CASE src.mode = "missing" -> Pulled(<<>>, "FileNotFoundError", "failed", 0, count)
      [] src.mode = "array_invalid" -> Pulled(<<>>, "ValueError", "failed", 0, count)
      [] src.mode \in {"array", "entries"} -> next_enumerated(src.items, src.pos, count)
      [] src.mode = "lines" -> next_jsonl(src.items, src.pos, count)

\* The record of an input in the history.
Input(call, input) ==
    [call |-> call, input |-> input, delivered |-> <<>>, error |-> "", ended |-> FALSE]

\* LogParser.parse_file(file_path): the call makes the generator; the file is
\* looked for and read when the generator is pulled first.
ParseFile ==
    /\ Len(parsed) < MaxInputs
    /\ \/ \E text \in Texts :
             /\ source' = [state |-> "suspended", mode |-> "unread", items |-> text, pos |-> 0]
             /\ parsed' = Append(parsed, Input("parse_file", text))
       \/ /\ source' = [state |-> "suspended", mode |-> "missing", items |-> <<>>, pos |-> 0]
          /\ parsed' = Append(parsed, Input("parse_file", <<Line("missing", Null)>>))
    /\ UNCHANGED <<engine_vars, listener_vars, validator_vars, report, stream,
                   calls, n_calls, since_report, repeated, evaluated, registered,
                   loaded, serialized, entry_count>>

\* LogParser.parse_entries(entries)
ParseEntries ==
    /\ Len(parsed) < MaxInputs
    /\ \E entries \in EntryLists :
           /\ source' = [state |-> "suspended", mode |-> "entries", items |-> entries, pos |-> 0]
           /\ parsed' = Append(parsed, Input("parse_entries", entries))
    /\ UNCHANGED <<engine_vars, listener_vars, validator_vars, report, stream,
                   calls, n_calls, since_report, repeated, evaluated, registered,
                   loaded, serialized, entry_count>>

\* next() on the generator made last.
ParserNext ==
    /\ source.state = "suspended"
    /\ LET opened == IF source.mode = "unread"
                     THEN [source EXCEPT !.mode = parse_stream(source.items).mode,
                                         !.items = parse_stream(source.items).items]
                     ELSE source
           step   == parser_next(opened, entry_count)
           n      == Len(parsed)
       IN  /\ entry_count' = step.count
           /\ source' = [opened EXCEPT !.state = step.state, !.pos = step.pos]
           /\ parsed' = [parsed EXCEPT ![n].delivered = @ \o step.out,
                                       ![n].error = step.error,
                                       ![n].ended = step.state # "suspended"]
    /\ UNCHANGED <<engine_vars, listener_vars, validator_vars, report, stream,
                   calls, n_calls, since_report, repeated, evaluated, registered,
                   loaded, serialized>>

ParserNextStep == ParseFile \/ ParseEntries \/ ParserNext

SpecParser == EvalInit /\ [][ParserNextStep]_vars

(***************************************************************************)
(* Properties.                                                             *)
(***************************************************************************)
RECURSIVE SumSeq(_)
SumSeq(ns) == IF ns = <<>> THEN 0 ELSE Head(ns) + SumSeq(Tail(ns))

RECURSIVE Flatten(_)
Flatten(ss) == IF ss = <<>> THEN <<>> ELSE Head(ss) \o Flatten(Tail(ss))

\* C1: every result validate_entry returns has status fail exactly when its
\* violation list is non-empty, and status pass otherwise.
C1_StatusFailIffViolations ==
    \A i \in 1..Len(calls) :
        calls[i].result # <<>> =>
            LET r == calls[i].result[1]
            IN  /\ r.status \in {"pass", "fail"}
                /\ r.status = "fail" <=> r.violations # <<>>

C1_Witness ==
    \E i, j \in 1..Len(calls) :
        /\ calls[i].result # <<>> /\ calls[i].result[1].status = "fail"
        /\ calls[j].result # <<>> /\ calls[j].result[1].status = "pass"

\* The records of the run whose entity id is E.
RecordsOf(E) == {i \in 1..Len(calls) : calls[i].entry.robot_id = E}

EntityIds == {calls[i].entry.robot_id : i \in 1..Len(calls)} \cup DOMAIN robot_summaries

\* C2: for every entity id E, a summary exists exactly when a record of E
\* was processed; it counts those records and their violations, and its
\* status is fail exactly when it counts a violation.  (Stated for a
\* Validator without listeners.)
C2_SummariesMatchRecords ==
    (~on_violation /\ ~on_entry) =>
    \A E \in EntityIds :
        /\ E \in DOMAIN robot_summaries <=> RecordsOf(E) # {}
        /\ E \in DOMAIN robot_summaries =>
              LET su == robot_summaries[E]
              IN  /\ su.total_entries = Cardinality(RecordsOf(E))
                  /\ su.violations_count =
                        SumSeq([i \in 1..Len(calls) |->
                                   IF i \in RecordsOf(E) THEN Len(calls[i].violations) ELSE 0])
                  /\ su.status = "fail" <=> su.violations_count > 0

\* The condition clause of a conditional rule evaluates to false on the entry.
ConditionFalse(rule, entry) ==
    /\ rule.type = "conditional"
    /\ ~rule.condition.isNone
    /\ ClauseKeys \subseteq DOMAIN rule.condition.d
    /\ evaluate_condition(operators, entry, rule.condition.d["field"],
                          rule.condition.d["operator"], rule.condition.d["value"]) = "false"

\* What evaluating the then clause would give: "true", "false", the
\* exception, or "absent" for a clause without its three keys.
ThenWould(rule, entry) ==
    IF rule.then.isNone \/ ~(ClauseKeys \subseteq DOMAIN rule.then.d) THEN "absent"
    ELSE evaluate_condition(operators, entry, rule.then.d["field"],
                            rule.then.d["operator"], rule.then.d["value"])

\* C3: a conditional rule whose condition evaluates to false on the entry
\* gives no violation, and its then clause is not evaluated.
C3_FalseConditionNoViolation ==
    \A k \in 1..Len(evaluated) :
        ConditionFalse(evaluated[k].rule, evaluated[k].entry) =>
            /\ evaluated[k].outcome.violation = <<>>
            /\ ~evaluated[k].outcome.raised
            /\ Len(evaluated[k].outcome.calls) <= 1

C3_Witness ==
    /\ evaluated # <<>>
    /\ ConditionFalse(evaluated[1].rule, evaluated[1].entry)
    /\ ThenWould(evaluated[1].rule, evaluated[1].entry) = "false"
    /\ evaluated[1].outcome.calls # <<>>

\* Evaluating the rule on the entry fails inside the engine.
InnerRaises(rule, entry) ==
    IF rule.type = "conditional"
    THEN evaluate_conditional_rule(operators, rule, entry).raised
    ELSE evaluate_simple_rule(operators, rule, entry).raised

\* C4: evaluate_rule never raises; a rule whose evaluation fails gives no
\* violation, every rule of the catalog is evaluated on every record, the
\* violations of the other rules are collected, and the record is counted.
C4_RuleFailureIsNoViolation ==
    /\ total_entries = Len(calls)
    /\ \A i \in 1..Len(calls) :
          /\ Len(calls[i].outcomes) = Len(rules)
          /\ calls[i].violations =
                Flatten([j \in 1..Len(calls[i].outcomes) |-> calls[i].outcomes[j].violation])
          /\ \A j \in 1..Len(calls[i].outcomes) :
                /\ ~calls[i].outcomes[j].raised
                /\ InnerRaises(rules[j], calls[i].entry) =>
                      calls[i].outcomes[j].violation = <<>>

C4_Witness ==
    \E i \in 1..Len(calls) :
        \E j, k \in 1..Len(rules) :
            /\ j < k
            /\ Len(calls[i].outcomes) = Len(rules)
            /\ InnerRaises(rules[j], calls[i].entry)
            /\ rules[j].type = "simple"
            /\ calls[i].outcomes[k].violation # <<>>
            /\ total_entries = Len(calls)

\* C5: with no listener registered every validate_entry call returns a
\* result, and a stream delivers a result for every record it pulls.
C5_NoRecordStopsTheStream ==
    (~on_violation /\ ~on_entry) =>
        /\ \A i \in 1..Len(calls) : calls[i].result # <<>>
        /\ stream.state # "failed"
        /\ stream.delivered = stream.pulled

\* The fields of a report as its holder reads them when the Validator's
\* summary dict is rs and its violation list is av.
ReportFields(r, rs, av) ==
    [r EXCEPT !.robot_summaries = Deref(@, rs), !.violations = Deref(@, av)]

\* C6: no process or reset call made after get_report returned a report
\* changes a field of that report, and the report's total_violations stays
\* the length of its violation list.
C6_ReportIsValueSnapshot ==
    [][(report # <<>> /\ report' # <<>> /\ since_report' # {}) =>
          /\ ReportFields(report'[1], robot_summaries', all_violations')
                = ReportFields(report[1], robot_summaries, all_violations)
          /\ report'[1].total_violations
                = Len(ReportFields(report'[1], robot_summaries', all_violations').violations)]_vars

\* A step from a state with a report to a state with a report made with
\* the same arguments.
SameArguments ==
    /\ report # <<>>
    /\ report' # <<>>
    /\ report'[1].rules_file = report[1].rules_file
    /\ report'[1].input_file = report[1].input_file

\* C7 as stated: a second get_report with the same arguments and no
\* process call since the first gives a report equal to the first in every
\* field.
C7_SecondReportIdentical ==
    [][(SameArguments /\ "validate_entry" \notin since_report /\ since_report' = {}) =>
          ReportFields(report'[1], robot_summaries', all_violations')
             = ReportFields(report[1], robot_summaries, all_violations)]_vars

\* C7 amended: a second get_report with the same arguments and neither a
\* process nor a reset call since the first gives a report equal to the
\* first in every field but generated_at.
C7_SecondReportIdenticalButTime ==
    [][(SameArguments /\ since_report = {} /\ since_report' = {}) =>
          [ReportFields(report'[1], robot_summaries', all_violations')
              EXCEPT !.generated_at = "any"]
             = [ReportFields(report[1], robot_summaries, all_violations)
                  EXCEPT !.generated_at = "any"]]_vars

C7_Witness ==
    /\ repeated
    /\ report # <<>>
    /\ report[1].total_entries = MaxRecords
    /\ ReportFields(report[1], robot_summaries, all_violations).violations # <<>>

\* all_violations starts with the list it was before the step.
Extended(before, after) ==
    /\ Len(before) <= Len(after)
    /\ SubSeq(after, 1, Len(before)) = before

\* C8: get_report can be called in every state and leaves the counters,
\* the by-rule and by-severity counts, the summaries, the violation list,
\* the listeners and the catalog as they are; a process call made when a
\* report has been made counts its record on top of the state it finds.
C8_GetReportLeavesState ==
    /\ []ENABLED GetReport
    /\ [][(report' # <<>> /\ since_report' = {}) =>
             UNCHANGED <<engine_vars, listener_vars, validator_vars>>]_vars
    /\ [][(report # <<>> /\ n_calls' = n_calls + 1) =>
             /\ total_entries' = total_entries + 1
             /\ total_passed' >= total_passed
             /\ total_violations' >= total_violations
             /\ Extended(all_violations, all_violations')
             /\ DOMAIN robot_summaries \subseteq DOMAIN robot_summaries']_vars

C8_Witness ==
    /\ report # <<>>
    /\ report[1].total_entries = 1
    /\ report[1].total_violations > 0
    /\ "validate_entry" \in since_report
    /\ total_entries = 2
    /\ total_violations > report[1].total_violations
    /\ stream.state = "suspended"

\* The calls whose result had status pass.
PassedCalls == {i \in 1..Len(calls) : calls[i].violations = <<>>}

\* q is the fraction <<n, d>> of the value 100 * p / e.
IsPercentage(q, p, e) == q[2] > 0 /\ q[1] * e = 100 * p * q[2]

\* C9: total_passed is the number of processed records whose result had
\* status pass; pass_rate is 100 for no record and 100 * total_passed /
\* total_entries otherwise; the pass_rate of a report is that value as it
\* was when get_report made the report.
C9_PassRate ==
    /\ total_passed = Cardinality(PassedCalls)
    /\ total_entries = Len(calls)
    /\ IF total_entries = 0
       THEN pass_rate(total_passed, total_entries) = <<100, 1>>
       ELSE IsPercentage(pass_rate(total_passed, total_entries), total_passed, total_entries)
    /\ report # <<>> =>
          /\ IF report[1].total_entries = 0
             THEN report[1].pass_rate = <<100, 1>>
             ELSE IsPercentage(report[1].pass_rate, report[1].total_passed,
                               report[1].total_entries)
          /\ since_report = {} =>
                /\ report[1].total_passed = total_passed
                /\ report[1].total_entries = total_entries

C9_Witness ==
    /\ total_entries = 2
    /\ total_passed = 1
    /\ report # <<>>
    /\ since_report = {}
    /\ report[1].pass_rate = <<50, 1>>

\* The violation list a call of validate_entry returned, empty when the
\* call returned nothing.
Returned(c) == IF c.result # <<>> THEN c.result[1].violations ELSE <<>>

\* The violations a call of validate_entry put on record before it ended.
Recorded(c) == SubSeq(c.violations, 1, c.recorded)

\* The list holds the violations of the rules in the order of the catalog.
InCatalogOrder(c) ==
    /\ Len(c.outcomes) = Len(rules)
    /\ c.violations = Flatten([j \in 1..Len(rules) |-> c.outcomes[j].violation])
    /\ \A j \in 1..Len(rules) :
          c.outcomes[j].violation # <<>> => c.outcomes[j].violation[1].rule_id = rules[j].id

NotifiedOf(c) == [j \in 1..Len(c.notified) |-> c.notified[j].violation]

\* In the Validator state s the violation v is the latest one counted: it
\* ends the global list and the list of its entity's summary, and the
\* counters count it.
CountedAt(v, s) ==
    /\ s.all_violations # <<>>
    /\ s.all_violations[Len(s.all_violations)] = v
    /\ s.total_violations = Len(s.all_violations)
    /\ v.rule_id \in DOMAIN s.violations_by_rule
    /\ s.violations_by_rule[v.rule_id] =
          Cardinality({k \in 1..Len(s.all_violations) : s.all_violations[k].rule_id = v.rule_id})
    /\ v.severity \in DOMAIN s.violations_by_severity
    /\ s.violations_by_severity[v.severity] =
          Cardinality({k \in 1..Len(s.all_violations) : s.all_violations[k].severity = v.severity})
    /\ s.robot_summary.violations # <<>>
    /\ s.robot_summary.violations[Len(s.robot_summary.violations)] = v
    /\ s.robot_summary.violations_count = Len(s.robot_summary.violations)
    /\ s.robot_summary.status = "fail"

\* C11: with a violation listener registered, in every call of
\* validate_entry that no raising violation listener ended, the listener is
\* called once for each violation of the record, with that violation, in
\* catalog order, and at each call finds that violation counted and listed;
\* without a listener nothing is called.
C11_ListenerCalledForEveryViolation ==
    \A i \in 1..Len(calls) :
        /\ ~on_violation => calls[i].notified = <<>>
        /\ (on_violation /\ calls[i].raised_in # "on_violation") =>
              /\ NotifiedOf(calls[i]) = calls[i].violations
              /\ \A j \in 1..Len(calls[i].notified) :
                    CountedAt(calls[i].notified[j].violation, calls[i].notified[j].state)

\* C12: with a record listener registered, in every call of validate_entry
\* that no raising violation listener ended, the listener is called once,
\* with the result of the record, when every violation of the record is
\* listed and the violation listener has been called for each of them;
\* without a listener nothing is called.
C12_EntryListenerCalledOncePerRecord ==
    \A i \in 1..Len(calls) :
        /\ ~on_entry => calls[i].entry_notified = <<>>
        /\ (on_entry /\ calls[i].raised_in # "on_violation") =>
              /\ Len(calls[i].entry_notified) = 1
              /\ LET e == calls[i].entry_notified[1]
                     n == Len(calls[i].violations)
                     m == Len(e.state.all_violations)
                 IN  /\ e.result = EntryResult(calls[i].entry,
                                               IF n = 0 THEN "pass" ELSE "fail",
                                               calls[i].violations)
                     /\ m >= n
                     /\ SubSeq(e.state.all_violations, m - n + 1, m) = calls[i].violations
                     /\ e.notified = IF on_violation THEN n ELSE 0

\* The results the consumer of the stream has got, in the order it got them.
Delivered == [i \in 1..stream.delivered |-> calls[i].result[1]]

\* C13: for a Validator without listeners that is fed through a stream and
\* not reset: making the stream processes nothing; when the consumer has
\* got k results, k records have been pulled from the source, the counters
\* and lists are those of k validate_entry calls on these records, and a
\* report made then is the report of these k records.
C13_StreamIsLazy ==
    (~on_violation /\ ~on_entry /\ stream.state # "none" /\ Len(calls) = n_calls) =>
        /\ stream.pulled = stream.delivered
        /\ Len(calls) = stream.delivered
        /\ \A i \in 1..Len(calls) : calls[i].result # <<>>
        /\ total_entries = stream.delivered
        /\ total_passed = Cardinality({i \in 1..stream.delivered : passed(Delivered[i])})
        /\ all_violations = Flatten([i \in 1..stream.delivered |-> Delivered[i].violations])
        /\ total_violations = Len(all_violations)
        /\ SumSeq([i \in 1..stream.delivered |->
                      IF Delivered[i].log_entry.robot_id \in DOMAIN robot_summaries
                      THEN 1 ELSE 0]) = stream.delivered
        /\ (report # <<>> /\ since_report = {}) =>
              /\ report[1].total_entries = stream.delivered
              /\ ReportFields(report[1], robot_summaries, all_violations).violations
                    = Flatten([i \in 1..stream.delivered |-> Delivered[i].violations])

\* The counters and aggregations of a Validator as __init__ leaves them.
Fresh ==
    /\ total_entries = 0
    /\ total_passed = 0
    /\ total_violations = 0
    /\ violations_by_rule = EmptyDict
    /\ violations_by_severity = EmptyDict
    /\ robot_summaries = EmptyDict
    /\ all_violations = <<>>
    /\ pass_rate(total_passed, total_entries) = <<100, 1>>

\* C14: reset can be called in every state; it leaves the counters and
\* aggregations as __init__ leaves them and the catalog, the registry and
\* the listeners as they are; the state the calls made since the reset lead
\* to is the one they lead to from construction.
C14_ResetGivesFreshState ==
    /\ []ENABLED Reset
    /\ [][(calls # <<>> /\ calls' = <<>>) =>
             /\ Fresh'
             /\ UNCHANGED <<engine_vars, listener_vars>>]_vars
    /\ [](calls = <<>> => Fresh)
    /\ [](/\ total_entries = Len(calls)
          /\ total_passed = Cardinality({i \in 1..Len(calls) : calls[i].violations = <<>>})
          /\ total_violations = SumSeq([i \in 1..Len(calls) |-> calls[i].recorded])
          /\ Len(all_violations) = total_violations
          /\ DOMAIN robot_summaries =
                {calls[i].entry.robot_id :
                    i \in {k \in 1..Len(calls) : Hashable(calls[k].entry.robot_id)}})

C14_Witness ==
    /\ n_calls = 2
    /\ Len(calls) = 1
    /\ total_entries = 1
    /\ total_violations > 0
    /\ report # <<>>
    /\ "reset" \in since_report
    /\ ~report[1].violations.live
    /\ Len(report[1].violations.value) > 0

\* C15: in a step that is not a reset, every summary stays, its
\* total_entries and violations_count do not decrease, and a status fail
\* stays fail.
C15_SummariesOnlyGrow ==
    [][~(calls # <<>> /\ calls' = <<>>) =>
          \A E \in DOMAIN robot_summaries :
              /\ E \in DOMAIN robot_summaries'
              /\ robot_summaries'[E].total_entries >= robot_summaries[E].total_entries
              /\ robot_summaries'[E].violations_count >= robot_summaries[E].violations_count
              /\ robot_summaries[E].status = "fail" => robot_summaries'[E].status = "fail"]_vars

C15_Witness ==
    /\ Len(calls) = 2
    /\ calls[1].entry.robot_id = PyStr("E1")
    /\ calls[1].recorded > 0
    /\ calls[2].entry.robot_id = PyStr("E1")
    /\ calls[2].violations = <<>>
    /\ calls[2].result # <<>>
    /\ rules # <<>>
    /\ robot_summaries[PyStr("E1")].status = "fail"
    /\ robot_summaries[PyStr("E1")].total_entries = 2

\* The predicate the registry holds for a name after the register_operator
\* calls made: the one of the last call for the name, else the built-in.
Registrations(name) == {i \in 1..Len(registered) : registered[i][1] = name}
Latest(name) ==
    IF Registrations(name) # {}
    THEN registered[CHOOSE i \in Registrations(name) :
                        \A j \in Registrations(name) : j <= i][2]
    ELSE IF name \in DOMAIN DefaultOperators THEN DefaultOperators[name]
    ELSE "unregistered"
Registered(name) == Latest(name) # "unregistered"

\* C16: evaluate_condition called with an operator name that is not in the
\* registry raises ValueError (unknown operator), whatever the log entry and
\* whether the field is present or not, and returns no boolean; the call
\* changes neither the registry nor the catalog; the rule with such an
\* operator raises inside _evaluate_simple_rule and evaluate_rule gives no
\* violation for it.
C16_UnknownOperatorRaises ==
    /\ [](\A i \in 1..Len(evaluated) :
            /\ (evaluated[i].call = "evaluate_condition"
                    /\ evaluated[i].operator \notin DOMAIN operators) =>
                  /\ evaluated[i].result = "ValueError"
                  /\ ~Registered(evaluated[i].operator)
            /\ (evaluated[i].call = "evaluate_condition"
                    /\ evaluated[i].operator \in DOMAIN operators) =>
                  evaluated[i].result # "ValueError"
            /\ (evaluated[i].call = "evaluate_rule"
                    /\ evaluated[i].rule.operator \notin DOMAIN operators) =>
                  /\ evaluate_simple_rule(operators, evaluated[i].rule,
                                          evaluated[i].entry).raised
                  /\ evaluated[i].outcome.violation = <<>>
                  /\ ~evaluated[i].outcome.raised)
    /\ [][evaluated' # evaluated => UNCHANGED engine_vars]_vars

\* An unknown operator was used on a field that is present and on one that
\* is absent, after a registration.
C16_Witness ==
    /\ registered # <<>>
    /\ evaluated # <<>>
    /\ evaluated[1].call = "evaluate_condition"
    /\ evaluated[1].operator \notin DOMAIN operators
    /\ get_field_value(evaluated[1].entry, evaluated[1].field) = PyInt(7)
    /\ evaluated[1].result = "ValueError"

\* C17: the registry is the built-in operators overridden by the
\* register_operator calls in the order made (the last call for a name
\* wins, a built-in name included, every other name keeps its predicate);
\* evaluate_condition applies the predicate registered last for the name,
\* and a rule naming a registered operator gives a violation exactly when
\* that predicate returns False.
C17_LastRegistrationWins ==
    /\ DOMAIN operators = {n \in DOMAIN DefaultOperators \cup RegisterNames : Registered(n)}
    /\ \A n \in DOMAIN operators : operators[n] = Latest(n)
    /\ \A i \in 1..Len(evaluated) :
          /\ (evaluated[i].call = "evaluate_condition" /\ Registered(evaluated[i].operator)) =>
                evaluated[i].result =
                    ApplyOperator(Latest(evaluated[i].operator),
                                  get_field_value(evaluated[i].entry, evaluated[i].field),
                                  evaluated[i].value)
          /\ (evaluated[i].call = "evaluate_rule" /\ Registered(evaluated[i].rule.operator)) =>
                /\ ~evaluated[i].outcome.raised
                /\ evaluated[i].outcome.violation # <<>> <=>
                      ApplyOperator(Latest(evaluated[i].rule.operator),
                                    get_field_value(evaluated[i].entry, evaluated[i].rule.field),
                                    evaluated[i].rule.threshold) = "false"

\* '>=' was registered twice with different predicates and a rule naming
\* '>=' was evaluated: the second predicate holds, the first one and the
\* built-in do not give that (7 > 5, 7 % 5 # 0), so there is no violation.
C17_Witness ==
    /\ Len(registered) = 2
    /\ registered[1] = <<">=", "divisible_by">>
    /\ registered[2] = <<">=", ">">>
    /\ evaluated # <<>>
    /\ evaluated[1].call = "evaluate_rule"
    /\ evaluated[1].rule.operator = ">="
    /\ get_field_value(evaluated[1].entry, evaluated[1].rule.field) = PyInt(7)
    /\ evaluated[1].rule.threshold = PyInt(5)
    /\ evaluated[1].outcome.violation = <<>>

\* One step of a dotted path: the value under a key of a map; null when the
\* key is missing or the value is not a map.
Under(v, key) == IF Tag(v) = "map" /\ key \in DOMAIN v[2] THEN v[2][key] ELSE Null
ValueTags == {"null", "int", "str", "bool", "list", "map"}

\* C18: get_field_value returns a value for every log entry and every dotted
\* path (it never raises): the value reached by following the segments
\* through nested maps, null once a segment is missing or the value reached
\* is not a map; 'a.b.c' gives 7 on {a:{b:{c:7}}}, null on {a:{b:null}} and
\* null on {a:5}.
C18_GetFieldValueNeverFails ==
    \A i \in 1..Len(evaluated) :
        evaluated[i].call = "get_field_value" =>
            LET raw   == evaluated[i].entry.raw_data
                parts == Split(evaluated[i].field)
                v1    == Under(raw, parts[1])
                v2    == IF Len(parts) >= 2 THEN Under(v1, parts[2]) ELSE v1
                v3    == IF Len(parts) >= 3 THEN Under(v2, parts[3]) ELSE v2
                v4    == IF Len(parts) >= 4 THEN Under(v3, parts[4]) ELSE v3
            IN  /\ Tag(evaluated[i].value) \in ValueTags
                /\ Len(parts) <= 4
                /\ evaluated[i].value = v4
                /\ evaluated[i].field = "a.b.c" =>
                      /\ Under(raw, "a") = PyDict([b |-> PyDict([c |-> PyInt(7)])]) =>
                            evaluated[i].value = PyInt(7)
                      /\ Under(raw, "a") = PyDict([b |-> Null]) => evaluated[i].value = Null
                      /\ Under(raw, "a") = PyInt(5) => evaluated[i].value = Null

\* 'a.b.c' was resolved on {a: 5}: the walk met a value that is no map.
C18_Witness ==
    /\ evaluated # <<>>
    /\ evaluated[1].call = "get_field_value"
    /\ evaluated[1].field = "a.b.c"
    /\ Under(evaluated[1].entry.raw_data, "a") = PyInt(5)
    /\ evaluated[1].value = Null

\* What the predicate registered for an operator gives on the value of a
\* field of a log entry and an expected value: "true", "false", or the
\* exception raised.
Predicate(entry, field, operator, value) ==
    IF operator \notin DOMAIN operators THEN "ValueError"
    ELSE ApplyOperator(operators[operator], get_field_value(entry, field), value)

\* The fields a violation takes from the rule and from the log entry.
FromRuleAndEntry(v, rule, entry) ==
    /\ v.rule_id = rule.id
    /\ v.rule_name = rule.name
    /\ v.severity = rule.severity
    /\ v.message = rule.message
    /\ v.timestamp = entry.timestamp
    /\ v.robot_id = entry.robot_id
    /\ v.log_index = entry.index

\* C19: a simple rule gives a violation on a log entry exactly when the
\* predicate of its operator returns False on (value of the field,
\* threshold); with >=, >, <=, < a field that is absent or null gives a
\* violation.  The violation has field = rule.field, actual_value = the
\* value of the field (null when absent), expected = '<operator>
\* <threshold>', the id, name, severity and message of the rule and the
\* timestamp, robot id and index of the log entry.
C19_SimpleRuleViolation ==
    \A i \in 1..Len(evaluated) :
        evaluated[i].rule.type = "simple" =>
            LET rule   == evaluated[i].rule
                entry  == evaluated[i].entry
                actual == get_field_value(entry, rule.field)
                vs     == evaluated[i].outcome.violation
            IN  /\ ~evaluated[i].outcome.raised
                /\ vs # <<>> <=>
                      Predicate(entry, rule.field, rule.operator, rule.threshold) = "false"
                /\ (rule.operator \in {">=", ">", "<=", "<"} /\ actual = Null) => vs # <<>>
                /\ vs # <<>> =>
                      /\ Len(vs) = 1
                      /\ vs[1].field = rule.field
                      /\ vs[1].actual_value = actual
                      /\ vs[1].expected = <<Lit(rule.operator), Lit(" "), Fmt(rule.threshold)>>
                      /\ FromRuleAndEntry(vs[1], rule, entry)

\* A rule with an ordered comparison was evaluated on a log entry without
\* the field and gave a violation with actual_value null.
C19_Witness ==
    /\ evaluated # <<>>
    /\ evaluated[1].rule.type = "simple"
    /\ evaluated[1].rule.operator = ">="
    /\ evaluated[1].rule.threshold = PyInt(10)
    /\ evaluated[1].rule.field \notin DOMAIN evaluated[1].entry.raw_data[2]
    /\ Len(evaluated[1].outcome.violation) = 1
    /\ evaluated[1].outcome.violation[1].actual_value = Null

\* A conditional rule whose condition and then are dicts with field,
\* operator and value.
BothClauses(rule) ==
    /\ rule.type = "conditional"
    /\ ~Falsy(rule.condition)
    /\ ~Falsy(rule.then)
    /\ ClauseKeys \subseteq DOMAIN rule.condition.d
    /\ ClauseKeys \subseteq DOMAIN rule.then.d

\* C20: for a conditional rule with both clauses and a log entry on which
\* the predicate of the condition returns True: when the predicate of then
\* returns False there is exactly one violation, with field = then.field,
\* actual_value = the value of then.field and expected = '<then operator>
\* <then value> (when <condition field> <condition operator> <condition
\* value>)'; when the predicate of then returns True there is no violation.
C20_ConditionalRuleViolation ==
    \A i \in 1..Len(evaluated) :
        BothClauses(evaluated[i].rule) =>
            LET rule  == evaluated[i].rule
                entry == evaluated[i].entry
                c     == rule.condition.d
                t     == rule.then.d
                vs    == evaluated[i].outcome.violation
                then_passed == Predicate(entry, t["field"], t["operator"], t["value"])
            IN  Predicate(entry, c["field"], c["operator"], c["value"]) = "true" =>
                    /\ ~evaluated[i].outcome.raised
                    /\ then_passed = "true" => vs = <<>>
                    /\ then_passed = "false" =>
                          /\ Len(vs) = 1
                          /\ vs[1].field = t["field"]
                          /\ vs[1].actual_value = get_field_value(entry, t["field"])
                          /\ vs[1].expected =
                                <<Lit(t["operator"]), Lit(" "), Fmt(t["value"]),
                                  Lit(" (when "), Lit(c["field"]), Lit(" "),
                                  Lit(c["operator"]), Lit(" "), Fmt(c["value"]), Lit(")")>>
                          /\ FromRuleAndEntry(vs[1], rule, entry)

\* The condition held on one field, then failed on another one and the
\* violation is on the field of then.
C20_Witness ==
    /\ evaluated # <<>>
    /\ BothClauses(evaluated[1].rule)
    /\ evaluated[1].rule.condition.d["field"] = "battery_level"
    /\ evaluated[1].rule.then.d["field"] = "movement_state"
    /\ Predicate(evaluated[1].entry, "battery_level",
                 evaluated[1].rule.condition.d["operator"],
                 evaluated[1].rule.condition.d["value"]) = "true"
    /\ Len(evaluated[1].outcome.violation) = 1
    /\ evaluated[1].outcome.violation[1].field = "movement_state"
    /\ evaluated[1].outcome.violation[1].actual_value = PyStr("moving")

\* The sum of the values of a dict of counts.
RECURSIVE SumOf(_)
SumOf(f) ==
    IF DOMAIN f = {} THEN 0
    ELSE LET k == CHOOSE x \in DOMAIN f : TRUE
         IN  f[k] + SumOf([j \in DOMAIN f \ {k} |-> f[j]])

\* C21: in every state of the Validator, also after a validate_entry call
\* that a listener ended with an exception, total_violations is the length
\* of the global violation list, the sum of the counts by rule, the sum of
\* the counts by severity and the sum of violations_count over the robot
\* summaries; violations_count of a summary is the length of its violation
\* list; the count of a rule id is the number of listed violations with
\* that rule id.
C21_ViolationCountsAgree ==
    /\ total_violations = Len(all_violations)
    /\ total_violations = SumOf(violations_by_rule)
    /\ total_violations = SumOf(violations_by_severity)
    /\ total_violations =
          SumOf([E \in DOMAIN robot_summaries |-> robot_summaries[E].violations_count])
    /\ \A E \in DOMAIN robot_summaries :
          robot_summaries[E].violations_count = Len(robot_summaries[E].violations)
    /\ DOMAIN violations_by_rule =
          {all_violations[i].rule_id : i \in 1..Len(all_violations)}
    /\ \A id \in DOMAIN violations_by_rule :
          violations_by_rule[id] =
              Cardinality({i \in 1..Len(all_violations) : all_violations[i].rule_id = id})

\* The violation listener raised at the first of two violations of the
\* second record, and the rule of that violation was violated before.
C21_Witness ==
    /\ Len(calls) = 2
    /\ calls[2].raised_in = "on_violation"
    /\ calls[2].recorded = 1
    /\ Len(calls[2].violations) = 2
    /\ \E id \in DOMAIN violations_by_rule : violations_by_rule[id] = 2

\* C26: in every state of the Validator, also after a validate_entry call
\* that ended with an exception, total_entries is the sum of total_entries
\* over the robot summaries, 0 <= total_passed <= total_entries, and
\* total_entries - total_passed is the number of processed records with at
\* least one violation.
C26_RecordCountsAgree ==
    /\ total_entries =
          SumOf([E \in DOMAIN robot_summaries |-> robot_summaries[E].total_entries])
    /\ 0 <= total_passed
    /\ total_passed <= total_entries
    /\ total_entries - total_passed =
          Cardinality({i \in 1..Len(calls) : calls[i].violations # <<>>})

\* The same with the calls left out that ended with the TypeError of a robot
\* id that cannot be a dict key.
C26_RecordCountsAgreeWhenKeyed ==
    (\A i \in 1..Len(calls) : calls[i].raised_in # "validate_entry") =>
        C26_RecordCountsAgree

\* C22: every load of a rule document with a rule object without 'id' ends
\* with an exception; a load that returns has made the catalog the rules of
\* the document in document order, a rule without 'severity' with severity
\* warning, a rule without 'name' with its id as name, a rule without
\* 'type' with type simple; a load that ends with an exception leaves the
\* catalog as it was before the call.
C22_LoadReplacesOrKeeps ==
    /\ rules = IF loaded = <<>> THEN <<>> ELSE loaded[Len(loaded)].after
    /\ \A i \in 1..Len(loaded) :
          LET objects == Get(loaded[i].data, "rules", <<>>)
              after   == loaded[i].after
          IN  /\ loaded[i].before = IF i = 1 THEN <<>> ELSE loaded[i - 1].after
              /\ (\E k \in 1..Len(objects) : "id" \notin DOMAIN objects[k]) =>
                    loaded[i].error # ""
              /\ loaded[i].error # "" => after = loaded[i].before
              /\ loaded[i].error = "" =>
                    /\ Len(after) = Len(objects)
                    /\ \A k \in 1..Len(objects) :
                          /\ after[k].id = objects[k]["id"]
                          /\ after[k].severity =
                                IF "severity" \in DOMAIN objects[k]
                                THEN objects[k]["severity"] ELSE "warning"
                          /\ after[k].name =
                                IF "name" \in DOMAIN objects[k]
                                THEN objects[k]["name"] ELSE objects[k]["id"]
                          /\ after[k].type =
                                IF "type" \in DOMAIN objects[k]
                                THEN objects[k]["type"] ELSE "simple"
                          /\ after[k].type = "simple" =>
                                /\ after[k].field = objects[k]["field"]
                                /\ after[k].operator = objects[k]["operator"]
                                /\ after[k].threshold = objects[k]["threshold"]

\* A document was loaded, then a document whose second rule object has no
\* 'id' (the first one has): the load failed and the catalog is the one of
\* the first load.
C22_Witness ==
    /\ Len(loaded) = 2
    /\ loaded[1].error = ""
    /\ Len(loaded[1].after) = 3
    /\ loaded[2].error = "KeyError"
    /\ "id" \in DOMAIN loaded[2].data.rules[1]
    /\ rules = loaded[1].after

\* A conditional rule without condition, without then, or without both
\* (None or an empty dict).
ClauseLess(rule) ==
    rule.type = "conditional" /\ (Falsy(rule.condition) \/ Falsy(rule.then))

\* C24: RuleEngine.validate_entry returns for every log entry; a
\* conditional rule of the catalog that lacks condition, then, or both
\* gives no violation and raises nothing, and the violations returned are
\* those of the other rules of the catalog, in catalog order.
C24_ClauseLessRuleNeverFires ==
    \A i \in 1..Len(evaluated) :
        evaluated[i].call = "validate_entry" =>
            LET res   == evaluated[i].result
                entry == evaluated[i].entry
            IN  /\ ~res.raised
                /\ Len(res.outcomes) = Len(rules)
                /\ \A k \in 1..Len(rules) :
                      ClauseLess(rules[k]) =>
                          /\ res.outcomes[k].violation = <<>>
                          /\ ~res.outcomes[k].raised
                          /\ res.outcomes[k].calls = <<>>
                /\ \A j \in 1..Len(res.violations) :
                      \A k \in 1..Len(rules) :
                          ClauseLess(rules[k]) => res.violations[j].rule_id # rules[k].id
                /\ res.violations =
                      Flatten([k \in 1..Len(rules) |->
                                  IF ClauseLess(rules[k]) THEN <<>>
                                  ELSE evaluate_rule(operators, rules[k], entry).violation])

\* A catalog with rules that lack a clause was applied to a log entry that
\* violates three of the other rules and on which the then clause of the
\* rule without condition does not hold.
C24_Witness ==
    /\ evaluated # <<>>
    /\ evaluated[1].call = "validate_entry"
    /\ \E k \in 1..Len(rules) :
          /\ rules[k].id = "then_only"
          /\ ClauseLess(rules[k])
          /\ Predicate(evaluated[1].entry, rules[k].then.d["field"],
                       rules[k].then.d["operator"], rules[k].then.d["value"]) = "false"
    /\ \E k \in 1..Len(rules) : rules[k].id = "no_clauses" /\ ClauseLess(rules[k])
    /\ Len(evaluated[1].result.violations) = 3

\* The number of records a LogParser has delivered.
DeliveredByParser == SumSeq([i \in 1..Len(parsed) |-> Len(parsed[i].delivered)])

\* C23: for every input given to a LogParser, also one that is not its
\* first, the k-th log entry delivered for the input (from 0) has index k,
\* and entries_parsed is the number of log entries the parser has delivered.
C23_IndexIsPositionInInput ==
    /\ \A i \in 1..Len(parsed) :
          \A k \in 1..Len(parsed[i].delivered) : parsed[i].delivered[k].index = k - 1
    /\ entry_count = DeliveredByParser

\* The k-th log entry a LogParser delivered (from 0), over all its inputs,
\* has index k.
C23_IndexIsPositionInParser ==
    LET all == Flatten([i \in 1..Len(parsed) |-> parsed[i].delivered])
    IN  \A k \in 1..Len(all) : all[k].index = k - 1

\* C23 for the parsers no pull of which raised: violated by a parser that
\* reads a second line-delimited text.
C23_WhenNoPullRaised ==
    (\A i \in 1..Len(parsed) : parsed[i].error = "") => C23_IndexIsPositionInInput

\* C23 for a parser on its first input on which no pull raised.
C23_FirstInputWithoutError ==
    (Len(parsed) = 1 /\ parsed[1].error = "") => C23_IndexIsPositionInInput

\* The JSON objects among the lines of a text, in order.
ObjectsOf(lines) ==
    LET objects == SelectSeq(lines, LAMBDA l : l.kind = "json" /\ Tag(l.value) = "map")
    IN  [i \in 1..Len(objects) |-> objects[i].value]

\* The text is one JSON array document: its only line that is not blank
\* starts with '['.
ArrayDocument(lines) ==
    /\ Cardinality({i \in 1..Len(lines) : lines[i].kind # "blank"}) = 1
    /\ \E i \in 1..Len(lines) : StartsArray(lines[i])

\* C25: for a text that is no JSON array document, the lines that are no
\* JSON or no JSON object are skipped: no pull raises, the log entries
\* delivered are those of the JSON objects of the text so far, in order,
\* and all of them once the generator has ended; a malformed JSON array
\* document ends the decoding with ValueError.
C25_MalformedLinesAreSkipped ==
    \A i \in 1..Len(parsed) :
        (parsed[i].call = "parse_file" /\ parsed[i].input # <<Line("missing", Null)>>) =>
            LET lines   == parsed[i].input
                objects == ObjectsOf(lines)
                given   == [k \in 1..Len(parsed[i].delivered) |->
                               parsed[i].delivered[k].raw_data]
            IN  /\ ~ArrayDocument(lines) =>
                      /\ parsed[i].error = ""
                      /\ Len(given) <= Len(objects)
                      /\ given = SubSeq(objects, 1, Len(given))
                      /\ parsed[i].ended => given = objects
                /\ (ArrayDocument(lines) /\ parsed[i].ended
                        /\ \E k \in 1..Len(lines) : lines[k].kind = "invalid_array") =>
                      parsed[i].error = "ValueError"

\* C25 for the texts in which every line is blank, a comment, no JSON, or a
\* JSON object, and in which the first line that is not blank does not
\* start with '['.
C25_WhenLinesAreObjectsOrNoJson ==
    (\A i \in 1..Len(parsed) :
        \/ parsed[i].call # "parse_file"
        \/ parsed[i].input = <<Line("missing", Null)>>
        \/ ArrayDocument(parsed[i].input)
        \/ /\ \A k \in 1..Len(parsed[i].input) :
                  parsed[i].input[k].kind = "json" => Tag(parsed[i].input[k].value) = "map"
           /\ parse_stream(parsed[i].input).mode = "lines")
    => C25_MalformedLinesAreSkipped

\* The validate_entry calls made on the log entries of a robot before the
\* n-th call ended, and those of them that found no violation.
EntriesOf(rid, n) == {i \in 1..n : calls[i].entry.robot_id = rid}
PassedOf(rid, n) == {i \in EntriesOf(rid, n) : calls[i].violations = <<>>}

\* C27: in the dict ValidationReport.to_dict gives, the pass_rate of every
\* robot is between 0 and 100 and is the percentage (to two decimals) of
\* the log entries of the robot that passed, also when a log entry violates
\* more than one rule.
C27_RobotPassRate ==
    \A s \in 1..Len(serialized) :
        \A rid \in DOMAIN serialized[s].dict.robots :
            /\ serialized[s].dict.robots[rid].pass_rate >= 0
            /\ serialized[s].dict.robots[rid].pass_rate <= 100 * 100
            /\ serialized[s].dict.robots[rid].pass_rate =
                  RoundedPercent(Cardinality(PassedOf(rid, serialized[s].at)),
                                 Max(Cardinality(EntriesOf(rid, serialized[s].at)), 1))

\* C27 for the runs in which no log entry violates more than one rule.
C27_WhenAtMostOneViolation ==
    (\A i \in 1..Len(calls) : Len(calls[i].violations) <= 1) => C27_RobotPassRate

====
